---- MODULE Spec2Model ----
(***************************************************************************)
(* Model of the forge Build reconciler (BuildReconciler.Reconcile and the  *)
(* functions it calls) against a small object store that holds one Build,  *)
(* the infrastructure object it references and the external provisioner    *)
(* objects labelled for it.  A Reconcile pass is one atomic action: the    *)
(* same Build key is never reconciled by two workers at once.              *)
(***************************************************************************)
EXTENDS Integers, Sequences, FiniteSets, TLC

VARIABLES build, infra, provs, lastPass, sbuilds, steps, jobs, lastShell, call

\* The store of the shell provisioner (the Builds it drives, their provisioner
\* specs, the Jobs) with the record of its last pass, and the record of the
\* last call of a function checked on its own.
shellVars == <<sbuilds, steps, jobs, lastShell>>

vars == <<build, infra, provs, lastPass, sbuilds, steps, jobs, lastShell, call>>

\* Number of external provisioner objects that may carry the build-name label.
MaxProv == 1

\* deleteRequeueAfter (seconds) and the requeue of a missing external object.
deleteRequeueAfter == 5
externalRequeueAfter == 30

-----------------------------------------------------------------------------
\* Conditions (sigs.k8s.io/cluster-api/util/conditions as used by the code).
\* A condition is status/reason/severity plus its lastTransitionTime, kept as
\* "now" (set in the current second) or "old" (set in an earlier second);
\* "zero" is the unset time of a freshly built condition.  Messages are "".

ReadyCondition == "Ready"
InfrastructureReadyCondition == "InfrastructureReady"
ProvisionersReadyCondition == "ProvisionersReady"
BuildInitializedCondition == "BuildInitialized"

CondTypes == {ReadyCondition, InfrastructureReadyCondition,
              ProvisionersReadyCondition, BuildInitializedCondition}

NoCond == [status |-> "none", reason |-> "", severity |-> "", ltt |-> "zero"]

TrueCondition == [status |-> "True", reason |-> "", severity |-> "", ltt |-> "zero"]

FalseCondition(reason, severity) ==
    [status |-> "False", reason |-> reason, severity |-> severity, ltt |-> "zero"]

NoConditions == [t \in CondTypes |-> NoCond]

Has(conds, t) == conds[t] # NoCond

HasSameState(a, b) ==
    a.status = b.status /\ a.reason = b.reason /\ a.severity = b.severity

\* conditions.Set: nil is ignored; an existing condition keeps its transition
\* time unless the state differs; a new one keeps a non-zero time it brings.
Set(conds, t, c) ==
    IF c = NoCond THEN conds
    ELSE IF Has(conds, t)
         THEN IF HasSameState(conds[t], c) THEN conds
              ELSE [conds EXCEPT ![t] = [c EXCEPT !.ltt = "now"]]
         ELSE [conds EXCEPT ![t] = [c EXCEPT !.ltt = IF c.ltt = "zero" THEN "now" ELSE c.ltt]]

MarkTrue(conds, t) == Set(conds, t, TrueCondition)

MarkFalse(conds, t, reason, severity) == Set(conds, t, FalseCondition(reason, severity))

\* conditions.mirror: the source's Ready condition, or the fallback when the
\* source has none.
Mirror(src, fallbackTo, fallbackReason, fallbackSeverity) ==
    IF src # NoCond THEN src
    ELSE IF fallbackTo THEN TrueCondition
    ELSE FalseCondition(fallbackReason, fallbackSeverity)

SetMirror(conds, t, src, fallbackTo, fallbackReason, fallbackSeverity) ==
    Set(conds, t, Mirror(src, fallbackTo, fallbackReason, fallbackSeverity))

\* conditions.merge priority of a condition's group: False by severity, then
\* True, then Unknown.
MergePriority(c) ==
    IF c.status = "False"
    THEN (IF c.severity = "Error" THEN 0 ELSE IF c.severity = "Warning" THEN 1 ELSE 2)
    ELSE IF c.status = "True" THEN 3 ELSE 4

\* conditions.summary over the condition types `order` (WithConditions): nil
\* when none of them exists; otherwise the state of the top group, the reason
\* taken from the first condition of that group in `order`.
Summary(conds, order) ==
    LET idx == {k \in 1..Len(order) : Has(conds, order[k])}
    IN IF idx = {} THEN NoCond
       ELSE LET top == CHOOSE k \in idx :
                          \A j \in idx :
                             \/ MergePriority(conds[order[k]]) < MergePriority(conds[order[j]])
                             \/ /\ MergePriority(conds[order[k]]) = MergePriority(conds[order[j]])
                                /\ k <= j
                c == conds[order[top]]
            IN IF c.status = "True" THEN TrueCondition
               ELSE [status |-> c.status, reason |-> c.reason,
                     severity |-> c.severity, ltt |-> "zero"]

SetSummary(conds, order) == Set(conds, ReadyCondition, Summary(conds, order))

-----------------------------------------------------------------------------
\* The stored objects.

BuildFinalizer == "build.forge.build"

PhaseValues == {"", "Pending", "Building", "Terminating", "Completed", "Failed"}

\* spec.infrastructureRef: absent, or the apiVersion it names.  LatestVersion
\* is the version the referenced kind's contract label resolves to.
RefVersions == {"v1alpha1", "v1beta1"}
LatestVersion == "v1beta1"

NoStatus ==
    [phase |-> "", ready |-> FALSE, infrastructureReady |-> FALSE,
     connected |-> FALSE, provisionersReady |-> FALSE,
     failureReason |-> "", failureMessage |-> "",
     conditions |-> NoConditions, failureDomains |-> {}]

NoBuild ==
    [exists |-> FALSE, finalizers |-> {}, deletionTimestamp |-> FALSE,
     paused |-> FALSE, pausedAnnotation |-> FALSE,
     infrastructureRef |-> "nil", externalProvisioner |-> FALSE,
     status |-> NoStatus]

NoInfra ==
    [exists |-> FALSE, deletionTimestamp |-> FALSE, label |-> FALSE,
     owner |-> FALSE, otherController |-> FALSE, pausedAnnotation |-> FALSE,
     machineReady |-> FALSE, ready |-> FALSE, readyCondition |-> NoCond,
     failureReason |-> "", failureMessage |-> "", failureDomains |-> {}]

\* An external provisioner object labelled for the Build.
ProvStates == {"absent", "owned", "unowned", "terminating"}

NoPass ==
    [path |-> "none", err |-> "", requeueAfter |-> 0, events |-> <<>>,
     deletes |-> <<>>, extPatched |-> FALSE, buildPatched |-> FALSE,
     patch |-> "none", descendants |-> -1, infraFetch |-> "none", phases |-> <<>>,
     results |-> <<>>, pre |-> NoBuild]

\* Store calls that may fail in a pass (at most one fault per pass).
Faults == {"none", "contract", "get", "patchExternal", "list", "delete", "patchBuild"}

-----------------------------------------------------------------------------
\* util/annotations

HasPaused(o) == o.pausedAnnotation

\* IsPaused reading the spec flag only.
IsPaused_SpecOnly(b, o) == b.paused

IsPaused(b, o) == b.paused \/ HasPaused(o)

-----------------------------------------------------------------------------
\* internal/external: readers of the conventional status fields of the
\* referenced object.

IsMachineReady(obj) == obj.machineReady

IsReady(obj) == obj.ready

FailuresFrom(obj) == [reason |-> obj.failureReason, message |-> obj.failureMessage]

\* The message copied to the Build wraps the object's message.
WrapFailureMessage(m) ==
    IF m = "boom" THEN "Failure detected from referenced resource: boom" ELSE m

\* external.Get on the infrastructure reference.
Get(c) ==
    IF c.fault = "get" THEN "error"
    ELSE IF c.i.exists THEN "found" ELSE "notfound"

\* Client.Delete on the infrastructure object: the object stays, terminating,
\* until its own finalizers are cleared.
DeleteInfraObject(c) ==
    [c EXCEPT !.i.deletionTimestamp = TRUE, !.dels = Append(@, [kind |-> "infra", k |-> 0])]

DeleteProvObject(c, k) ==
    [c EXCEPT !.p[k] = "terminating", !.dels = Append(@, [kind |-> "prov", k |-> k])]

Eventf(c, type, reason) == [c EXCEPT !.ev = Append(@, [type |-> type, reason |-> reason])]

-----------------------------------------------------------------------------
\* The forward pipeline.  A pass works on a context c: the in-memory Build
\* c.b, the stored infrastructure object c.i and provisioner objects c.p, the
\* events c.ev and delete calls c.dels issued so far, and the fault c.fault.
\* A phase returns the context, its requeueAfter and whether it failed.

Out(c, res, err) == [c |-> c, res |-> res, err |-> err]

\* UpdateReferenceAPIContract choosing a version other than the one the
\* contract resolves to.
UpdateReferenceAPIContract_NotLatest(c) ==
    [c EXCEPT !.b.infrastructureRef = "v1alpha2"]

\* conversion.UpdateReferenceAPIContract: the reference's version is replaced,
\* in place, by the latest version of the contract.
UpdateReferenceAPIContract(c) ==
    [c EXCEPT !.b.infrastructureRef = LatestVersion]

\* reconcileExternal: "error", "requeue" (object not found), "paused" or "ok".
\* reconcileExternal returning every failed fetch, not-found included, as an
\* error.
reconcileExternal_NotFoundIsError(c) ==
    IF c.fault = "contract" THEN [c |-> c, out |-> "error"]
    ELSE LET c1 == UpdateReferenceAPIContract(c)
         IN [c |-> c1, out |-> IF c1.i.exists /\ IsPaused(c1.b, c1.i)
                               THEN "paused" ELSE "error"]

reconcileExternal_CopiesEmpty(c) ==
    IF c.fault = "contract" THEN [c |-> c, out |-> "error"]
    ELSE LET c1 == UpdateReferenceAPIContract(c)
             got == Get(c1)
         IN IF got = "error" THEN [c |-> c1, out |-> "error"]
            ELSE IF got = "notfound" THEN [c |-> c1, out |-> "requeue"]
            ELSE IF IsPaused(c1.b, c1.i) THEN [c |-> c1, out |-> "paused"]
            ELSE IF c1.i.otherController THEN [c |-> c1, out |-> "error"]
            ELSE LET obj == [c1.i EXCEPT !.owner = TRUE, !.label = TRUE]
                     changed == obj # c1.i
                     f == FailuresFrom(obj)
                 IN IF changed /\ c1.fault = "patchExternal"
                    THEN [c |-> c1, out |-> "error"]
                    ELSE [c |-> [c1 EXCEPT !.i = obj,
                                           !.extPatched = changed,
                                           !.b.status.failureReason = f.reason,
                                           !.b.status.failureMessage =
                                               WrapFailureMessage(f.message)],
                          out |-> "ok"]

reconcileExternal(c) ==
    IF c.fault = "contract" THEN [c |-> c, out |-> "error"]
    ELSE LET c1 == UpdateReferenceAPIContract(c)
             got == Get(c1)
         IN IF got = "error" THEN [c |-> c1, out |-> "error"]
            ELSE IF got = "notfound" THEN [c |-> c1, out |-> "requeue"]
            ELSE IF IsPaused(c1.b, c1.i) THEN [c |-> c1, out |-> "paused"]
            ELSE IF c1.i.otherController THEN [c |-> c1, out |-> "error"]
            ELSE LET obj == [c1.i EXCEPT !.owner = TRUE, !.label = TRUE]
                     changed == obj # c1.i
                     f == FailuresFrom(obj)
                 IN IF changed /\ c1.fault = "patchExternal"
                    THEN [c |-> c1, out |-> "error"]
                    ELSE [c |-> [c1 EXCEPT !.i = obj,
                                           !.extPatched = changed,
                                           !.b.status.failureReason =
                                               IF f.reason # "" THEN f.reason ELSE @,
                                           !.b.status.failureMessage =
                                               IF f.message # ""
                                               THEN WrapFailureMessage(f.message) ELSE @],
                          out |-> "ok"]

\* The tail of reconcileInfrastructure once the object is fetched and live.
\* The readiness part of reconcileInfrastructure without the build-level
\* readiness: it stops after the machine-level flag and its condition.
syncInfrastructure_MachineOnly(c) ==
    LET infraReady == IsMachineReady(c.i)
        c1 == [c EXCEPT !.b.status.infrastructureReady = infraReady]
    IN Out([c1 EXCEPT !.b.status.conditions =
               SetMirror(@, InfrastructureReadyCondition, c.i.readyCondition,
                         infraReady, "WaitingForInfrastructure", "Info")], 0, FALSE)

syncInfrastructure(c) ==
    LET obj == c.i
        infraReady == IsMachineReady(obj)
        c1 == [c EXCEPT !.b.status.infrastructureReady = infraReady]
        c2 == IF c.b.status.infrastructureReady # infraReady
              THEN Eventf(c1, "Normal", "InfrastructureReady") ELSE c1
        c3 == [c2 EXCEPT !.b.status.conditions =
                  SetMirror(@, InfrastructureReadyCondition, obj.readyCondition,
                            infraReady, "WaitingForInfrastructure", "Info")]
    IN IF ~infraReady THEN Out(c3, 0, FALSE)
       ELSE LET ready == IsReady(obj)
                c4 == [c3 EXCEPT !.b.status.ready = ready]
                c5 == IF c3.b.status.ready # ready
                      THEN Eventf(c4, "Normal", "Ready") ELSE c4
                c6 == [c5 EXCEPT !.b.status.conditions =
                          SetMirror(@, ReadyCondition, obj.readyCondition,
                                    ready, "WaitingForInfrastructure", "Info")]
            IN IF ~ready THEN Out(c6, 0, FALSE)
               ELSE Out([c6 EXCEPT !.b.status.failureDomains = obj.failureDomains], 0, FALSE)

reconcileInfrastructure(c) ==
    IF c.b.infrastructureRef = "nil" THEN Out(c, 0, FALSE)
    ELSE LET r == reconcileExternal(c)
         IN IF r.out = "error" THEN Out(r.c, 0, TRUE)
            ELSE IF r.out = "requeue" THEN Out(r.c, externalRequeueAfter, FALSE)
            ELSE IF r.out = "paused" THEN Out(r.c, 0, FALSE)
            ELSE IF r.c.i.deletionTimestamp THEN Out(r.c, 0, FALSE)
            ELSE syncInfrastructure(r.c)

\* reconcileConnection without its two early returns.
reconcileConnection_NoGate(c) ==
    Out([c EXCEPT !.b.status.conditions =
            MarkFalse(@, BuildInitializedCondition, "WaitingForConnection", "Info")],
        0, FALSE)

reconcileConnection(c) ==
    IF ~c.b.status.infrastructureReady THEN Out(c, 0, FALSE)
    ELSE IF c.b.status.connected THEN Out(c, 0, FALSE)
    ELSE Out([c EXCEPT !.b.status.conditions =
                 MarkFalse(@, BuildInitializedCondition, "WaitingForConnection", "Info")],
             0, FALSE)

reconcileProvisioners(c) ==
    IF ~c.b.status.connected THEN Out(c, 0, FALSE)
    ELSE IF c.b.status.provisionersReady THEN Out(c, 0, FALSE)
    ELSE Out([c EXCEPT !.b.status.conditions =
                 MarkFalse(@, ProvisionersReadyCondition, "WaitingForProvisioners", "Info")],
             0, FALSE)

reconcileImageProvided(c) ==
    IF ~c.b.status.provisionersReady THEN Out(c, 0, FALSE)
    ELSE IF c.b.status.ready /\ c.b.status.conditions[ReadyCondition].status = "True"
         THEN Out(c, 0, FALSE)
    ELSE Out([c EXCEPT !.b.status.conditions = MarkTrue(@, BuildInitializedCondition)],
             0, FALSE)

\* util.LowestNonZeroResult on requeueAfter values (0 is the zero result).
\* LowestNonZeroResult keeping its first argument.
LowestNonZeroResult_First(i, j) == i

LowestNonZeroResult(i, j) ==
    IF i = 0 THEN j ELSE IF j = 0 THEN i ELSE IF i < j THEN i ELSE j

\* One turn of the loop of reconcile: the phase is invoked; its result counts
\* only while no phase has failed.
phaseStep(acc, r, name) ==
    LET failed == acc.err \/ r.err
    IN [c |-> [r.c EXCEPT !.phases = Append(@, name),
                          !.results = Append(@, [res |-> r.res, err |-> r.err])],
        res |-> IF failed THEN acc.res ELSE LowestNonZeroResult(acc.res, r.res),
        err |-> failed]

reconcile(c) ==
    LET a0 == Out(c, 0, FALSE)
        a1 == phaseStep(a0, reconcileInfrastructure(a0.c), "infrastructure")
        a2 == phaseStep(a1, reconcileConnection(a1.c), "connection")
        a3 == phaseStep(a2, reconcileProvisioners(a2.c), "provisioners")
        a4 == phaseStep(a3, reconcileImageProvided(a3.c), "image")
    IN a4

-----------------------------------------------------------------------------
\* The phase projection.

\* BuildStatus.GetTypedPhase
GetTypedPhase(phase) ==
    IF phase \in {"Pending", "Building", "Terminating", "Completed", "Failed"}
    THEN phase ELSE "Unknown"

\* The value reconcilePhase leaves in status.phase.
\* The projection with the Terminating overwrite moved last.
projectPhase_TerminatingLast(b) ==
    IF b.status.phase = "" THEN "Pending"
    ELSE LET p0 == b.status.phase
             p2 == IF (b.infrastructureRef # "nil"
                       /\ Has(b.status.conditions, InfrastructureReadyCondition))
                      \/ b.status.infrastructureReady
                   THEN "Building" ELSE p0
             p3 == IF b.status.failureReason # "" \/ b.status.failureMessage # ""
                   THEN "Failed" ELSE p2
             p4 == IF b.status.ready THEN "Completed" ELSE p3
         IN IF b.deletionTimestamp THEN "Terminating" ELSE p4

\* The projection with the Failed overwrite moved before the Building one.
projectPhase_BuildingOverFailed(b) ==
    IF b.status.phase = "" THEN "Pending"
    ELSE LET p0 == b.status.phase
             p1 == IF b.status.failureReason # "" \/ b.status.failureMessage # ""
                   THEN "Failed" ELSE p0
             p2 == IF (b.infrastructureRef # "nil"
                       /\ Has(b.status.conditions, InfrastructureReadyCondition))
                      \/ b.status.infrastructureReady
                   THEN "Building" ELSE p1
             p4 == IF b.deletionTimestamp THEN "Terminating" ELSE p2
         IN IF b.status.ready THEN "Completed" ELSE p4

\* The projection without the early return on the empty phase.
projectPhase_NoPending(b) ==
    LET p0 == b.status.phase
        p1 == IF b.infrastructureRef # "nil"
                 /\ Has(b.status.conditions, InfrastructureReadyCondition)
              THEN "Building" ELSE p0
        p2 == IF b.status.infrastructureReady THEN "Building" ELSE p1
        p3 == IF b.status.failureReason # "" \/ b.status.failureMessage # ""
              THEN "Failed" ELSE p2
        p4 == IF b.deletionTimestamp THEN "Terminating" ELSE p3
    IN IF b.status.ready THEN "Completed" ELSE p4

projectPhase(b) ==
    IF b.status.phase = "" THEN "Pending"
    ELSE LET p0 == b.status.phase
             p1 == IF b.infrastructureRef # "nil"
                      /\ Has(b.status.conditions, InfrastructureReadyCondition)
                   THEN "Building" ELSE p0
             p2 == IF b.status.infrastructureReady THEN "Building" ELSE p1
             p3 == IF b.status.failureReason # "" \/ b.status.failureMessage # ""
                   THEN "Failed" ELSE p2
             p4 == IF b.deletionTimestamp THEN "Terminating" ELSE p3
             p5 == IF b.status.ready THEN "Completed" ELSE p4
         IN p5

\* reconcilePhase: sets the phase and records an event when the typed phase
\* changed; the empty-phase branch returns before the event.
reconcilePhase(c) ==
    LET new == projectPhase(c.b)
        c1 == [c EXCEPT !.b.status.phase = new]
    IN IF c.b.status.phase = "" THEN c1
       ELSE IF GetTypedPhase(c.b.status.phase) # GetTypedPhase(new)
            THEN Eventf(c1, IF GetTypedPhase(new) = "Failed" THEN "Warning" ELSE "Normal",
                        GetTypedPhase(new))
            ELSE c1

\* patchBuild: the Ready condition is set to the summary of ProvisionersReady
\* and InfrastructureReady before the patch is computed.
\* patchBuild without the summary.
patchBuild_NoSummary(b) == b

patchBuild(b) ==
    [b EXCEPT !.status.conditions =
        SetSummary(@, <<ProvisionersReadyCondition, InfrastructureReadyCondition>>)]

-----------------------------------------------------------------------------
\* The deletion workflow.

ProvIds == 1..MaxProv

\* listDescendants: the labelled objects of the infrastructure kind and of the
\* external provisioner kind.
listDescendants(c) ==
    [infraBuild |-> IF c.i.exists /\ c.i.label THEN {0} ELSE {},
     provisioners |-> IF c.b.externalProvisioner
                      THEN {k \in ProvIds : c.p[k] # "absent"} ELSE {}]

length(d) == Cardinality(d.infraBuild) + Cardinality(d.provisioners)

RECURSIVE SetToSeq(_)
SetToSeq(S) ==
    IF S = {} THEN <<>>
    ELSE LET m == CHOOSE x \in S : \A y \in S : x <= y
         IN <<m>> \o SetToSeq(S \ {m})

\* filterOwnedDescendants: the descendants owned by the Build, provisioners
\* first and the infrastructure object last.  A terminating provisioner object
\* is left out here: the delete loop skips it whoever owns it.
\* filterOwnedDescendants keeping every listed descendant, owned or not.
filterOwnedDescendants_All(c, d) ==
    LET ps == SetToSeq({k \in d.provisioners : c.p[k] \in {"owned", "unowned"}})
    IN [k \in 1..Len(ps) |-> [kind |-> "prov", k |-> ps[k]]]
       \o (IF d.infraBuild # {} THEN <<[kind |-> "infra", k |-> 0]>> ELSE <<>>)

\* filterOwnedDescendants with the infrastructure object sorted first.
filterOwnedDescendants_InfraFirst(c, d) ==
    LET ps == SetToSeq({k \in d.provisioners : c.p[k] = "owned"})
    IN (IF d.infraBuild # {} /\ c.i.owner THEN <<[kind |-> "infra", k |-> 0]>> ELSE <<>>)
       \o [k \in 1..Len(ps) |-> [kind |-> "prov", k |-> ps[k]]]

filterOwnedDescendants(c, d) ==
    LET ps == SetToSeq({k \in d.provisioners : c.p[k] = "owned"})
    IN [k \in 1..Len(ps) |-> [kind |-> "prov", k |-> ps[k]]]
       \o (IF d.infraBuild # {} /\ c.i.owner THEN <<[kind |-> "infra", k |-> 0]>> ELSE <<>>)

\* The loop over the children: a delete call for each child that is not
\* already terminating.
RECURSIVE deleteChildren(_, _)
deleteChildren(c, children) ==
    IF children = <<>> THEN c
    ELSE LET child == Head(children)
             c1 == IF child.kind = "prov" THEN DeleteProvObject(c, child.k)
                   ELSE IF c.i.deletionTimestamp THEN c
                   ELSE DeleteInfraObject(c)
         IN deleteChildren(c1, Tail(children))

\* Whether the loop has a delete call to issue.
hasLiveChild(c, children) ==
    \E n \in 1..Len(children) :
        children[n].kind = "prov" \/ ~c.i.deletionTimestamp

\* The infrastructureRef block of reconcileDelete: done tells whether the
\* workflow goes on to remove the finalizer.
\* deleteInfrastructure without the return after the delete call.
deleteInfrastructure_NoWait(c) ==
    IF c.b.infrastructureRef = "nil"
    THEN [c |-> c, done |-> TRUE, err |-> "", fetch |-> "none"]
    ELSE IF Get(c) = "error" THEN [c |-> c, done |-> FALSE, err |-> "error", fetch |-> "error"]
    ELSE IF Get(c) = "notfound"
    THEN [c |-> c, done |-> TRUE, err |-> "", fetch |-> "notfound"]
    ELSE [c |-> DeleteInfraObject(c), done |-> TRUE, err |-> "", fetch |-> "found"]

deleteInfrastructure(c) ==
    IF c.b.infrastructureRef = "nil"
    THEN [c |-> c, done |-> TRUE, err |-> "", fetch |-> "none"]
    ELSE IF Get(c) = "error" THEN [c |-> c, done |-> FALSE, err |-> "error", fetch |-> "error"]
    ELSE IF Get(c) = "notfound"
    THEN [c |-> [c EXCEPT !.b.status.conditions =
                    MarkFalse(@, InfrastructureReadyCondition, "Deleted", "Info")],
          done |-> TRUE, err |-> "", fetch |-> "notfound"]
    ELSE LET c1 == [c EXCEPT !.b.status.conditions =
                       SetMirror(@, InfrastructureReadyCondition, c.i.readyCondition,
                                 FALSE, "Deleting", "Info")]
         IN IF c.fault = "delete"
            THEN [c |-> c1, done |-> FALSE, err |-> "error", fetch |-> "found"]
            ELSE [c |-> DeleteInfraObject(c1), done |-> FALSE, err |-> "", fetch |-> "found"]

DelOut(c, res, err, n, fetch) ==
    [c |-> c, res |-> res, err |-> err, descendants |-> n, infraFetch |-> fetch]

removeFinalizer(c) ==
    Eventf([c EXCEPT !.b.finalizers = @ \ {BuildFinalizer}], "Normal", "Deleted")

reconcileDelete(c) ==
    IF c.b.infrastructureRef = "nil" THEN DelOut(c, 0, "panic", -1, "none")
    ELSE IF c.fault = "list" THEN DelOut(c, 0, "error", -1, "none")
    ELSE LET d == listDescendants(c)
             children == filterOwnedDescendants(c, d)
         IN IF hasLiveChild(c, children) /\ c.fault = "delete"
            THEN DelOut(c, 0, "error", length(d), "none")
            ELSE LET c1 == deleteChildren(c, children)
                 IN IF length(d) > 0
                    THEN DelOut(c1, deleteRequeueAfter, "", length(d), "none")
                    ELSE LET r == deleteInfrastructure(c1)
                         IN IF r.done
                            THEN DelOut(removeFinalizer(r.c), 0, "", 0, r.fetch)
                            ELSE DelOut(r.c, 0, r.err, 0, r.fetch)

-----------------------------------------------------------------------------
\* BuildReconciler.Reconcile

Context(fault) ==
    [b |-> build, i |-> infra, p |-> provs, ev |-> <<>>, dels |-> <<>>,
     extPatched |-> FALSE, phases |-> <<>>, results |-> <<>>, fault |-> fault]

PassOut(path, c, res, err, n, fetch) ==
    [path |-> path, c |-> c, res |-> res, err |-> err,
     descendants |-> n, infraFetch |-> fetch]

\* The body of Reconcile after the patch helper is built: the deletion
\* workflow when the deletion timestamp is set, else the finalizer is added
\* and the pass returns, else the forward pipeline runs.
\* Reconcile's dispatch without the return after the finalizer is added.
dispatch_NoReturn(c) ==
    IF c.b.deletionTimestamp
    THEN LET r == reconcileDelete(c)
         IN PassOut("delete", r.c, r.res, r.err, r.descendants, r.infraFetch)
    ELSE LET r == reconcile([c EXCEPT !.b.finalizers = @ \cup {BuildFinalizer}])
         IN PassOut("forward", r.c, r.res, IF r.err THEN "error" ELSE "", -1, "none")

dispatch(c) ==
    IF c.b.deletionTimestamp
    THEN LET r == reconcileDelete(c)
         IN PassOut("delete", r.c, r.res, r.err, r.descendants, r.infraFetch)
    ELSE IF BuildFinalizer \notin c.b.finalizers
    THEN PassOut("addFinalizer", [c EXCEPT !.b.finalizers = @ \cup {BuildFinalizer}],
                 0, "", -1, "none")
    ELSE LET r == reconcile(c)
         IN PassOut("forward", r.c, r.res, IF r.err THEN "error" ELSE "", -1, "none")

\* The deferred function: reconcilePhase, then patchBuild.
\* The deferred function with the patch computed before reconcilePhase runs.
deferred_PatchFirst(c) == [c EXCEPT !.b = patchBuild(c.b)]

deferred(c) ==
    LET c1 == reconcilePhase(c)
    IN [c1 EXCEPT !.b = patchBuild(c1.b)]

\* The store removes a Build that has a deletion timestamp and no finalizer.
Stored(b) == IF b.deletionTimestamp /\ b.finalizers = {} THEN NoBuild ELSE b

Reconcile(fault) ==
    IF ~build.exists
    THEN /\ lastPass' = [NoPass EXCEPT !.path = "notfound"]
         /\ UNCHANGED <<build, infra, provs>>
    ELSE IF IsPaused(build, build)
    THEN /\ lastPass' = [NoPass EXCEPT !.path = "paused", !.pre = build]
         /\ UNCHANGED <<build, infra, provs>>
    ELSE \E r \in {dispatch(Context(fault))} : \E c \in {deferred(r.c)} :
         LET changed == c.b # build
             patchFails == changed /\ fault = "patchBuild"
         IN /\ build' = IF patchFails THEN build ELSE Stored(c.b)
            /\ infra' = c.i
            /\ provs' = c.p
            /\ lastPass' = [path |-> r.path,
                            err |-> IF r.err # "" THEN r.err
                                    ELSE IF patchFails THEN "error" ELSE "",
                            requeueAfter |-> r.res,
                            events |-> c.ev,
                            deletes |-> c.dels,
                            extPatched |-> c.extPatched,
                            buildPatched |-> changed /\ ~patchFails,
                            patch |-> IF ~changed THEN "noop"
                                      ELSE IF patchFails THEN "failed" ELSE "ok",
                            descendants |-> r.descendants,
                            infraFetch |-> r.infraFetch,
                            phases |-> c.phases,
                            results |-> c.results,
                            pre |-> build]

-----------------------------------------------------------------------------
\* The environment: users, the infrastructure provider, the external
\* provisioner's controller, the store's garbage collection and the clock.

\* Time passes between a pass and any later change made by the environment:
\* no stored transition time is of the current second any more.
Aged(b) ==
    [b EXCEPT !.status.conditions =
        [t \in CondTypes |-> IF @[t].ltt = "now" THEN [@[t] EXCEPT !.ltt = "old"] ELSE @[t]]]

CreateBuild(ref, ext, other) ==
    /\ ~build.exists /\ ~infra.exists /\ \A k \in ProvIds : provs[k] = "absent"
    /\ build' = [NoBuild EXCEPT !.exists = TRUE,
                                !.infrastructureRef = ref,
                                !.externalProvisioner = ext,
                                !.finalizers = IF other THEN {"foregroundDeletion"} ELSE {}]
    /\ lastPass' = NoPass
    /\ UNCHANGED <<infra, provs>>

\* A delete request: the deletion timestamp is set while finalizers remain.
DeleteBuild ==
    /\ build.exists /\ ~build.deletionTimestamp
    /\ build' = Stored(Aged([build EXCEPT !.deletionTimestamp = TRUE]))
    /\ lastPass' = NoPass
    /\ UNCHANGED <<infra, provs>>

\* Another controller clears its own finalizer from the terminating Build.
ClearOtherFinalizer ==
    /\ build.exists /\ build.deletionTimestamp
    /\ "foregroundDeletion" \in build.finalizers
    /\ build' = Stored(Aged([build EXCEPT !.finalizers = @ \ {"foregroundDeletion"}]))
    /\ lastPass' = NoPass
    /\ UNCHANGED <<infra, provs>>

PauseBuild(how) ==
    /\ build.exists /\ ~IsPaused(build, build)
    /\ build' = Aged(IF how = "spec" THEN [build EXCEPT !.paused = TRUE]
                     ELSE [build EXCEPT !.pausedAnnotation = TRUE])
    /\ lastPass' = NoPass
    /\ UNCHANGED <<infra, provs>>

UnpauseBuild ==
    /\ build.exists /\ IsPaused(build, build)
    /\ build' = Aged([build EXCEPT !.paused = FALSE, !.pausedAnnotation = FALSE])
    /\ lastPass' = NoPass
    /\ UNCHANGED <<infra, provs>>

\* The provider (or a user) creates the referenced object.
CreateInfra(mr, r, rc, oc) ==
    /\ build.exists /\ build.infrastructureRef # "nil" /\ ~infra.exists
    /\ infra' = [NoInfra EXCEPT !.exists = TRUE, !.machineReady = mr, !.ready = r,
                                !.otherController = oc,
                                !.readyCondition = rc, !.failureDomains = {"fd1"}]
    /\ lastPass' = NoPass
    /\ build' = Aged(build) /\ UNCHANGED provs

\* The provider updates the readiness it reports.
UpdateInfraStatus(mr, r, rc) ==
    /\ infra.exists
    /\ <<mr, r, rc>> # <<infra.machineReady, infra.ready, infra.readyCondition>>
    /\ infra' = [infra EXCEPT !.machineReady = mr, !.ready = r, !.readyCondition = rc]
    /\ lastPass' = NoPass
    /\ build' = Aged(build) /\ UNCHANGED provs

\* The provider reports a terminal failure.
FailInfra(reason, message) ==
    /\ infra.exists /\ infra.failureReason = "" /\ infra.failureMessage = ""
    /\ infra' = [infra EXCEPT !.failureReason = reason, !.failureMessage = message]
    /\ lastPass' = NoPass
    /\ build' = Aged(build) /\ UNCHANGED provs

PauseInfra ==
    /\ infra.exists /\ ~infra.pausedAnnotation
    /\ infra' = [infra EXCEPT !.pausedAnnotation = TRUE]
    /\ lastPass' = NoPass
    /\ build' = Aged(build) /\ UNCHANGED provs

\* A user deletes the referenced object.
DeleteInfra ==
    /\ infra.exists /\ ~infra.deletionTimestamp
    /\ infra' = [infra EXCEPT !.deletionTimestamp = TRUE]
    /\ lastPass' = NoPass
    /\ build' = Aged(build) /\ UNCHANGED provs

\* The provider finishes the deletion of the referenced object.
InfraGone ==
    /\ infra.exists /\ infra.deletionTimestamp
    /\ infra' = NoInfra
    /\ lastPass' = NoPass
    /\ build' = Aged(build) /\ UNCHANGED provs

CreateProv(k, owned) ==
    /\ build.exists /\ build.externalProvisioner /\ provs[k] = "absent"
    /\ provs' = [provs EXCEPT ![k] = IF owned THEN "owned" ELSE "unowned"]
    /\ lastPass' = NoPass
    /\ build' = Aged(build) /\ UNCHANGED infra

\* The provisioner's controller removes its object (finishing a deletion, or
\* on its own for an object the Build does not own).
ProvGone(k) ==
    /\ provs[k] \in {"terminating", "unowned"}
    /\ provs' = [provs EXCEPT ![k] = "absent"]
    /\ lastPass' = NoPass
    /\ build' = Aged(build) /\ UNCHANGED infra

\* The clock moves to the next second.
Tick ==
    /\ build.exists
    /\ \E t \in CondTypes : build.status.conditions[t].ltt = "now"
    /\ build' = Aged(build)
    /\ UNCHANGED <<infra, provs, lastPass>>

-----------------------------------------------------------------------------
\* The shell provisioner: Builds with their provisioner specs, and the Jobs
\* in the forge-core namespace.

\* Number of provisioner specs, each belonging to one of the Builds.
MaxSteps == 2

StepIds == 1..MaxSteps

\* requeue of a provisioner whose Job is running (seconds)
provisionerRequeueAfter == 2

BuildKeys ==
    {[namespace |-> "ns1", name |-> "a"],
     [namespace |-> "ns2", name |-> "a"],
     [namespace |-> "ns1", name |-> "b"]}

BuildNames == {k.name : k \in BuildKeys}

\* A nil pointer of the provisioner spec and of the Build status.
Nil == <<>>

ProvisionerStatuses == {"Pending", "Running", "Completed", "Failed", "Unknown"}

NoStep ==
    [owner |-> [namespace |-> "ns1", name |-> "a"], allowFail |-> FALSE, uuid |-> Nil,
     status |-> "Pending", failureReason |-> Nil, failureMessage |-> Nil]

NoSBuild == [exists |-> FALSE, failureReason |-> Nil, failureMessage |-> Nil]

\* job.GetShellJobName: the Job is named after the Build's name alone.
GetShellJobName(buildName) == <<"forge-provisioner-shell", buildName>>

JobNames == {GetShellJobName(n) : n \in BuildNames}

NoPod == [present |-> FALSE, init |-> <<>>, main |-> <<>>]

NoLabels == [buildName |-> "", buildNamespace |-> "", provisionerID |-> Nil]

NoJob == [exists |-> FALSE, labels |-> NoLabels, condition |-> "none", pod |-> NoPod]

NoShell ==
    [kind |-> "none", step |-> 0, job |-> Nil, fault |-> "none", err |-> "",
     requeueAfter |-> 0, createOrPatch |-> 0, created |-> 0,
     patched |-> "none", deleted |-> FALSE]

NoCall == [fn |-> "none"]

\* The shell provisioner and the functions checked on their own at rest.
ShellOff ==
    /\ sbuilds = [k \in BuildKeys |-> NoSBuild]
    /\ steps = [s \in StepIds |-> NoStep]
    /\ jobs = [j \in JobNames |-> NoJob]
    /\ lastShell = NoShell
    /\ call = NoCall

ShellIdle == UNCHANGED <<sbuilds, steps, jobs, lastShell, call>>

BuildIdle == UNCHANGED <<build, infra, provs, lastPass>>

-----------------------------------------------------------------------------
\* The readiness a provider reports: machine-level flag, build-level flag and
\* Ready condition.
InfraStatuses ==
    {<<FALSE, FALSE, NoCond>>,
     <<FALSE, FALSE, [status |-> "False", reason |-> "Provisioning", severity |-> "Warning", ltt |-> "old"]>>,
     <<TRUE, FALSE, NoCond>>,
     <<TRUE, TRUE, NoCond>>,
     <<TRUE, TRUE, [status |-> "True", reason |-> "", severity |-> "", ltt |-> "old"]>>}

Init ==
    /\ build = NoBuild
    /\ infra = NoInfra
    /\ provs = [k \in ProvIds |-> "absent"]
    /\ lastPass = NoPass
    /\ ShellOff

\* The life of a Build that is never paused.
Next ==
    \/ \E f \in Faults : Reconcile(f) /\ ShellIdle
    \/ \E ref \in {"nil", "v1alpha1"}, ext \in BOOLEAN : CreateBuild(ref, ext, FALSE) /\ ShellIdle
    \/ DeleteBuild /\ ShellIdle
    \/ \E st \in InfraStatuses, oc \in BOOLEAN :
          CreateInfra(st[1], st[2], st[3], oc) /\ ShellIdle
    \/ \E st \in InfraStatuses : UpdateInfraStatus(st[1], st[2], st[3]) /\ ShellIdle
    \/ FailInfra("CreateError", "boom") /\ ShellIdle
    \/ DeleteInfra /\ ShellIdle
    \/ InfraGone /\ ShellIdle
    \/ \E k \in ProvIds, owned \in BOOLEAN : CreateProv(k, owned) /\ ShellIdle
    \/ \E k \in ProvIds : ProvGone(k) /\ ShellIdle
    \/ Tick /\ ShellIdle

Spec == Init /\ [][Next]_vars

\* The life of a Build that may be paused and may carry another controller's
\* finalizer; it has no external provisioners.
NextPause ==
    \/ \E f \in Faults : Reconcile(f) /\ ShellIdle
    \/ \E ref \in {"nil", "v1alpha1"}, other \in BOOLEAN : CreateBuild(ref, FALSE, other) /\ ShellIdle
    \/ DeleteBuild /\ ShellIdle
    \/ ClearOtherFinalizer /\ ShellIdle
    \/ \E how \in {"spec", "annotation"} : PauseBuild(how) /\ ShellIdle
    \/ UnpauseBuild /\ ShellIdle
    \/ \E st \in InfraStatuses, oc \in BOOLEAN :
          CreateInfra(st[1], st[2], st[3], oc) /\ ShellIdle
    \/ \E st \in InfraStatuses : UpdateInfraStatus(st[1], st[2], st[3]) /\ ShellIdle
    \/ FailInfra("CreateError", "boom") /\ ShellIdle
    \/ PauseInfra /\ ShellIdle
    \/ DeleteInfra /\ ShellIdle
    \/ InfraGone /\ ShellIdle
    \/ Tick /\ ShellIdle

SpecPause == Init /\ [][NextPause]_vars

-----------------------------------------------------------------------------
\* The extension points: the transport collaborator reports the connection
\* and the provisioner orchestration reports the provisioners done, both by
\* writing the Build status flag the later phases gate on.

Connect ==
    /\ build.exists /\ ~build.deletionTimestamp /\ ~build.status.connected
    /\ build.status.infrastructureReady
    /\ build' = Aged([build EXCEPT !.status.connected = TRUE])
    /\ lastPass' = NoPass
    /\ UNCHANGED <<infra, provs>>

FinishProvisioners ==
    /\ build.exists /\ ~build.deletionTimestamp /\ build.status.connected
    /\ ~build.status.provisionersReady
    /\ build' = Aged([build EXCEPT !.status.provisionersReady = TRUE])
    /\ lastPass' = NoPass
    /\ UNCHANGED <<infra, provs>>

\* The life of a Build whose connection and provisioners make progress; it has
\* no external provisioner objects.
NextExt ==
    \/ \E f \in Faults : Reconcile(f) /\ ShellIdle
    \/ CreateBuild("v1alpha1", FALSE, FALSE) /\ ShellIdle
    \/ DeleteBuild /\ ShellIdle
    \/ \E st \in InfraStatuses, oc \in BOOLEAN :
          CreateInfra(st[1], st[2], st[3], oc) /\ ShellIdle
    \/ \E st \in InfraStatuses : UpdateInfraStatus(st[1], st[2], st[3]) /\ ShellIdle
    \/ FailInfra("CreateError", "boom") /\ ShellIdle
    \/ InfraGone /\ ShellIdle
    \/ Connect /\ ShellIdle
    \/ FinishProvisioners /\ ShellIdle
    \/ Tick /\ ShellIdle

SpecExt == Init /\ [][NextExt]_vars

-----------------------------------------------------------------------------
\* reconcilePhase on its own, over every combination of the fields it reads.

PhaseInputs ==
    {[NoBuild EXCEPT !.exists = TRUE,
                     !.finalizers = {BuildFinalizer},
                     !.deletionTimestamp = dt,
                     !.infrastructureRef = ref,
                     !.status.phase = ph,
                     !.status.ready = rdy,
                     !.status.infrastructureReady = ir,
                     !.status.failureReason = fr,
                     !.status.failureMessage = fm,
                     !.status.conditions[InfrastructureReadyCondition] = cond] :
        dt \in BOOLEAN, ref \in {"nil", "v1beta1"}, ph \in PhaseValues \cup {"Bogus"},
        rdy \in BOOLEAN, ir \in BOOLEAN, fr \in {"", "CreateError"}, fm \in {"", "boom"},
        cond \in {NoCond, [TrueCondition EXCEPT !.ltt = "old"]}}

InitPhase ==
    /\ build \in PhaseInputs
    /\ infra = NoInfra
    /\ provs = [k \in ProvIds |-> "absent"]
    /\ lastPass = NoPass
    /\ ShellOff

ApplyReconcilePhase ==
    \E c \in {reconcilePhase(Context("none"))} :
        /\ build' = c.b
        /\ lastPass' = [NoPass EXCEPT !.path = "phase", !.events = c.ev, !.pre = build]
        /\ UNCHANGED <<infra, provs>>

NextPhase == ApplyReconcilePhase /\ ShellIdle

SpecPhase == InitPhase /\ [][NextPhase]_vars

-----------------------------------------------------------------------------
\* The provisioner Reconcile of the shell provisioner (one provisioner spec
\* of one Build) and the observer of its Jobs.  The caller that walks the
\* provisioner specs of a Build and stores the Build afterwards is not part
\* of the source: a pass stores what Reconcile left in the Build.

\* uuid.New(): a value that neither a provisioner spec nor the label of a Job
\* carries.
NewUUID(c, s) ==
    LET used == {IF c.st[s].uuid = Nil THEN 0 ELSE c.st[s].uuid[2]} \cup
                {c.jb[n].labels.provisionerID[2] :
                    n \in {m \in JobNames : /\ c.jb[m].exists
                                            /\ c.jb[m].labels.provisionerID # Nil
                                            /\ c.jb[m].labels.provisionerID[1] = s}}
    IN <<s, 1 + (CHOOSE n \in used : \A k \in used : k <= n)>>

\* ShellJobBuilder.Build: the labels of the Job.
ShellJobBuilderBuild(key, id) ==
    [exists |-> TRUE,
     labels |-> [buildName |-> key.name, buildNamespace |-> key.namespace,
                 provisionerID |-> id],
     condition |-> "none",
     pod |-> NoPod]

\* controllerutil.CreateOrPatch with a mutate function that changes nothing:
\* an existing object of that name is left as it is.
CreateOrPatch(jb, name, desired) ==
    IF jb[name].exists THEN [jb |-> jb, op |-> "unchanged"]
    ELSE [jb |-> [jb EXCEPT ![name] = desired], op |-> "created"]

ShellOut(c, res, err, cop, created) ==
    [c |-> c, res |-> res, err |-> err, createOrPatch |-> cop, created |-> created]

pollProvisioner_IgnoreAllowFail(c, s, cop, created) ==
    LET sp == c.st[s]
    IN IF sp.status = "Running" THEN ShellOut(c, provisionerRequeueAfter, "", cop, created)
       ELSE IF sp.status = "Failed"
       THEN IF sp.failureReason = Nil \/ sp.failureMessage = Nil
            THEN ShellOut(c, 0, "panic", cop, created)
            ELSE ShellOut([c EXCEPT !.sb[sp.owner].failureReason = <<"ProvisionerFailed">>,
                                    !.sb[sp.owner].failureMessage =
                                        <<sp.uuid, sp.failureReason, sp.failureMessage>>],
                          0, "", cop, created)
       ELSE ShellOut(c, 0, "", cop, created)

\* The switch on the status of the provisioner spec.  The failure message
\* dereferences the spec's failureReason and failureMessage.
pollProvisioner(c, s, cop, created) ==
    LET sp == c.st[s]
    IN IF sp.status = "Running" THEN ShellOut(c, provisionerRequeueAfter, "", cop, created)
       ELSE IF sp.status = "Failed" /\ ~sp.allowFail
       THEN IF sp.failureReason = Nil \/ sp.failureMessage = Nil
            THEN ShellOut(c, 0, "panic", cop, created)
            ELSE ShellOut([c EXCEPT !.sb[sp.owner].failureReason = <<"ProvisionerFailed">>,
                                    !.sb[sp.owner].failureMessage =
                                        <<sp.uuid, sp.failureReason, sp.failureMessage>>],
                          0, "", cop, created)
       ELSE ShellOut(c, 0, "", cop, created)

shellReconcile_AlwaysCreate(c, s, fault) ==
    LET sp == c.st[s]
        name == GetShellJobName(sp.owner.name)
    IN IF TRUE
       THEN IF fault = "create" THEN ShellOut(c, 0, "error", 1, 0)
            ELSE LET id == NewUUID(c, s)
                     r == CreateOrPatch(c.jb, name, ShellJobBuilderBuild(sp.owner, id))
                     c1 == [c EXCEPT !.jb = r.jb, !.st[s].uuid = id, !.st[s].status = "Running"]
                 IN IF r.op # "unchanged"
                    THEN ShellOut(c1, provisionerRequeueAfter, "", 1, 1)
                    ELSE pollProvisioner(c1, s, 1, 0)
       ELSE pollProvisioner(c, s, 0, 0)

shellReconcile(c, s, fault) ==
    LET sp == c.st[s]
        name == GetShellJobName(sp.owner.name)
    IN IF sp.uuid = Nil
       THEN IF fault = "create" THEN ShellOut(c, 0, "error", 1, 0)
            ELSE LET id == NewUUID(c, s)
                     r == CreateOrPatch(c.jb, name, ShellJobBuilderBuild(sp.owner, id))
                     c1 == [c EXCEPT !.jb = r.jb, !.st[s].uuid = id, !.st[s].status = "Running"]
                 IN IF r.op # "unchanged"
                    THEN ShellOut(c1, provisionerRequeueAfter, "", 1, 1)
                    ELSE pollProvisioner(c1, s, 1, 0)
       ELSE pollProvisioner(c, s, 0, 0)

ShellContext == [sb |-> sbuilds, st |-> steps, jb |-> jobs]

ProvisionerReconcile(s, fault) ==
    /\ sbuilds[steps[s].owner].exists
    /\ fault = "create" => steps[s].uuid = Nil
    /\ \E r \in {shellReconcile(ShellContext, s, fault)} :
          /\ sbuilds' = r.c.sb
          /\ steps' = r.c.st
          /\ jobs' = r.c.jb
          /\ lastShell' = [NoShell EXCEPT !.kind = "reconcile", !.step = s, !.fault = fault,
                                          !.err = r.err, !.requeueAfter = r.res,
                                          !.createOrPatch = r.createOrPatch,
                                          !.created = r.created]
    /\ BuildIdle
    /\ UNCHANGED call

\* util.GetProvisionerByID: the first provisioner spec of the Build whose UUID
\* is id, 0 when there is none.
GetProvisionerByID(st, key, id) ==
    LET match == {s \in StepIds : st[s].owner = key /\ st[s].uuid = id}
    IN IF match = {} THEN 0 ELSE CHOOSE s \in match : \A t \in match : s <= t

\* GetTerminatedContainersStatusesByPod: a map from container name to the
\* terminated state, the init containers first, then the main containers; a
\* later container of the same name replaces an earlier one.
GetTerminatedContainersStatusesByPod(pod) ==
    LET all == IF pod.present THEN pod.init \o pod.main ELSE <<>>
        term == {n \in 1..Len(all) : all[n].terminated}
        names == {all[n].name : n \in term}
        lastOf(nm) == CHOOSE n \in term :
                         /\ all[n].name = nm
                         /\ \A m \in term : all[m].name = nm => m <= n
    IN [nm \in names |-> all[lastOf(nm)]]

\* The names of the entries with a non-zero exit code.
NonZero(statuses) == {nm \in DOMAIN statuses : statuses[nm].exitCode # 0}

\* The loop of processFailedScanJob over the map: every entry with a non-zero
\* exit code overwrites failureReason and failureMessage, so the entry the
\* iteration reaches last stays.  The order of a map iteration is not fixed;
\* `last` is the non-zero entry this iteration reached last.
recordFailure(sp, statuses, last) ==
    IF NonZero(statuses) = {} THEN sp
    ELSE [sp EXCEPT !.failureReason = <<statuses[last].reason>>,
                    !.failureMessage = <<statuses[last].message>>]

ObserverOut(c, err, patched, deleted) ==
    [c |-> c, err |-> err, patched |-> patched, deleted |-> deleted]

\* deleteJob
deleteJob(c, name, fault, patched) ==
    IF fault = "delete" THEN ObserverOut(c, "error", patched, FALSE)
    ELSE ObserverOut([c EXCEPT !.jb[name] = NoJob], "", patched, TRUE)

\* patchHelper.Patch(build) followed by deleteJob: a failed patch is logged
\* and the Build keeps its stored state.
patchThenDelete(c, changed, name, fault) ==
    IF fault = "patch" THEN deleteJob(c, name, fault, "failed")
    ELSE deleteJob(changed, name, fault, "ok")

processCompleteScanJob(c, name, key, id, fault) ==
    LET s == GetProvisionerByID(c.st, key, id)
    IN IF s = 0 THEN ObserverOut(c, "notfound", "none", FALSE)
       ELSE patchThenDelete(c, [c EXCEPT !.st[s].status = "Completed"], name, fault)

processFailedScanJob(c, name, key, id, fault, last) ==
    IF fault = "pods" THEN ObserverOut(c, "error", "none", FALSE)
    ELSE LET statuses == GetTerminatedContainersStatusesByPod(c.jb[name].pod)
             s == GetProvisionerByID(c.st, key, id)
         IN IF s = 0 THEN ObserverOut(c, "notfound", "none", FALSE)
            ELSE patchThenDelete(c,
                     [c EXCEPT !.st[s] = [recordFailure(@, statuses, last)
                                             EXCEPT !.status = "Failed"]],
                     name, fault)

reconcileJobs_DefaultFailed(c, name, fault, last) ==
    LET job == c.jb[name]
        key == [namespace |-> job.labels.buildNamespace, name |-> job.labels.buildName]
    IN IF fault = "getJob" THEN ObserverOut(c, "error", "none", FALSE)
       ELSE IF ~job.exists THEN ObserverOut(c, "", "none", FALSE)
       ELSE IF job.condition = "none" THEN ObserverOut(c, "", "none", FALSE)
       ELSE IF fault = "getBuild" THEN ObserverOut(c, "error", "none", FALSE)
       ELSE IF ~c.sb[key].exists THEN ObserverOut(c, "", "none", FALSE)
       ELSE IF job.condition = "Complete"
            THEN processCompleteScanJob(c, name, key, job.labels.provisionerID, fault)
       ELSE IF TRUE
            THEN processFailedScanJob(c, name, key, job.labels.provisionerID, fault, last)
       ELSE ObserverOut(c, "unrecognized", "none", FALSE)

\* The reconcile function of ShellJobController over the Job called name.
reconcileJobs(c, name, fault, last) ==
    LET job == c.jb[name]
        key == [namespace |-> job.labels.buildNamespace, name |-> job.labels.buildName]
    IN IF fault = "getJob" THEN ObserverOut(c, "error", "none", FALSE)
       ELSE IF ~job.exists THEN ObserverOut(c, "", "none", FALSE)
       ELSE IF job.condition = "none" THEN ObserverOut(c, "", "none", FALSE)
       ELSE IF fault = "getBuild" THEN ObserverOut(c, "error", "none", FALSE)
       ELSE IF ~c.sb[key].exists THEN ObserverOut(c, "", "none", FALSE)
       ELSE IF job.condition = "Complete"
            THEN processCompleteScanJob(c, name, key, job.labels.provisionerID, fault)
       ELSE IF job.condition = "Failed"
            THEN processFailedScanJob(c, name, key, job.labels.provisionerID, fault, last)
       ELSE ObserverOut(c, "unrecognized", "none", FALSE)

ObserverFaults == {"none", "getJob", "getBuild", "pods", "patch", "delete"}

\* The entries a map iteration may reach last among the non-zero ones.
LastChoices(name) ==
    LET nz == NonZero(GetTerminatedContainersStatusesByPod(jobs[name].pod))
    IN IF jobs[name].exists /\ jobs[name].condition = "Failed" /\ nz # {} THEN nz ELSE {""}

\* A fault is the failure of a call the pass makes: a pass that never reaches
\* the call cannot fail there.
ObserveJob(name, fault) ==
    /\ \E last \in LastChoices(name) :
       \E r \in {reconcileJobs(ShellContext, name, fault, last)} :
          /\ fault # "none" => r # reconcileJobs(ShellContext, name, "none", last)
          /\ sbuilds' = r.c.sb
          /\ steps' = r.c.st
          /\ jobs' = r.c.jb
          /\ lastShell' = [NoShell EXCEPT !.kind = "observe", !.job = name, !.fault = fault,
                                          !.err = r.err, !.patched = r.patched,
                                          !.deleted = r.deleted]
    /\ BuildIdle
    /\ UNCHANGED call

\* The cluster around the shell provisioner: Jobs reach a condition, Builds are
\* removed.

Container(name, terminated, exitCode, reason, message) ==
    [name |-> name, terminated |-> terminated, exitCode |-> exitCode,
     reason |-> reason, message |-> message]

PodProfiles ==
    { NoPod,
      [present |-> TRUE, init |-> <<>>,
       main |-> <<Container("main", TRUE, 1, "Error", "boom")>>],
      [present |-> TRUE, init |-> <<Container("init", TRUE, 0, "Completed", "")>>,
       main |-> <<Container("main", TRUE, 1, "Error", "boom")>>],
      [present |-> TRUE, init |-> <<>>,
       main |-> <<Container("main", TRUE, 1, "Error", "boom"),
                  Container("sidecar", TRUE, 137, "OOMKilled", "killed")>>],
      [present |-> TRUE, init |-> <<Container("init", TRUE, 0, "Completed", "")>>,
       main |-> <<Container("main", FALSE, 0, "", "")>>] }

ShellEnv == lastShell' = NoShell /\ BuildIdle /\ UNCHANGED call

JobCompletes(name) ==
    /\ jobs[name].exists
    /\ jobs[name].condition = "none"
    /\ jobs' = [jobs EXCEPT ![name].condition = "Complete"]
    /\ UNCHANGED <<sbuilds, steps>>
    /\ ShellEnv

JobFails(name, pod) ==
    /\ jobs[name].exists
    /\ jobs[name].condition = "none"
    /\ jobs' = [jobs EXCEPT ![name].condition = "Failed", ![name].pod = pod]
    /\ UNCHANGED <<sbuilds, steps>>
    /\ ShellEnv

JobSuspended(name) ==
    /\ jobs[name].exists
    /\ jobs[name].condition = "none"
    /\ jobs' = [jobs EXCEPT ![name].condition = "Suspended"]
    /\ UNCHANGED <<sbuilds, steps>>
    /\ ShellEnv

DeleteSBuild(key) ==
    /\ sbuilds[key].exists
    /\ sbuilds' = [sbuilds EXCEPT ![key] = NoSBuild]
    /\ UNCHANGED <<steps, jobs>>
    /\ ShellEnv

StepSpecs == {[NoStep EXCEPT !.owner = k, !.allowFail = a] : k \in BuildKeys, a \in BOOLEAN}

InitShell ==
    /\ build = NoBuild
    /\ infra = NoInfra
    /\ provs = [i \in ProvIds |-> "absent"]
    /\ lastPass = NoPass
    /\ steps \in [StepIds -> StepSpecs]
    /\ steps[1].owner = [namespace |-> "ns1", name |-> "a"]
    /\ sbuilds = [k \in BuildKeys |->
                    [NoSBuild EXCEPT !.exists = \E s \in StepIds : steps[s].owner = k]]
    /\ jobs = [j \in JobNames |-> NoJob]
    /\ lastShell = NoShell
    /\ call = NoCall

NextShell ==
    \/ \E s \in StepIds, fault \in {"none", "create"} : ProvisionerReconcile(s, fault)
    \/ \E name \in JobNames, fault \in ObserverFaults : ObserveJob(name, fault)
    \/ \E name \in JobNames : JobCompletes(name)
    \/ \E name \in JobNames, pod \in PodProfiles : JobFails(name, pod)
    \/ \E name \in JobNames : JobSuspended(name)
    \/ \E key \in BuildKeys : DeleteSBuild(key)

SpecShell == InitShell /\ [][NextShell]_vars

\* Reconcile passes alone: no Job reaches a condition, no Build is removed.
NextCreate ==
    \E s \in StepIds, fault \in {"none", "create"} : ProvisionerReconcile(s, fault)

SpecCreate == InitShell /\ [][NextCreate]_vars

\* Provisioner specs as the API admits them in a stored Build: the uuid is an
\* optional string and the status any value of the enumeration, whoever wrote
\* them.
StoredSpecs(s) ==
    {[NoStep EXCEPT !.owner = k, !.allowFail = a, !.uuid = id, !.status = st,
                    !.failureReason = f[1], !.failureMessage = f[2]] :
        k \in BuildKeys, a \in BOOLEAN, id \in {Nil, <<s, 0>>},
        st \in ProvisionerStatuses,
        f \in {<<Nil, Nil>>, <<<<"Error">>, <<"boom">>>>}}

InitPoll ==
    /\ build = NoBuild
    /\ infra = NoInfra
    /\ provs = [i \in ProvIds |-> "absent"]
    /\ lastPass = NoPass
    /\ steps \in [StepIds -> UNION {StoredSpecs(s) : s \in StepIds}]
    /\ \A s \in StepIds : steps[s] \in StoredSpecs(s)
    /\ steps[1].owner = [namespace |-> "ns1", name |-> "a"]
    /\ \A s \in StepIds : steps[s].status = "Failed" <=> steps[s].failureReason # Nil
    /\ sbuilds = [k \in BuildKeys |->
                    [NoSBuild EXCEPT !.exists = \E s \in StepIds : steps[s].owner = k]]
    /\ jobs = [j \in JobNames |-> NoJob]
    /\ lastShell = NoShell
    /\ call = NoCall

\* Reconcile passes over stored provisioner specs of every status.
NextPoll ==
    \E s \in StepIds, fault \in {"none", "create"} : ProvisionerReconcile(s, fault)

SpecPoll == InitPoll /\ [][NextPoll]_vars

-----------------------------------------------------------------------------
\* The observer behind its informer cache.  r.Client.Get reads the Job and the
\* Build from the cache; the Clientset calls (the refreshed Job, the Pod list),
\* the patch and the delete go to the API server.  The variable call holds the
\* content of the cache.

CacheOf(sb, st, jb) == [fn |-> "cache", sb |-> sb, st |-> st, jb |-> jb]

\* patchHelper.Patch(build) of the observer: a JSON merge patch of the
\* difference between the Build as read and as changed, with no resource
\* version; spec.provisioners is a list, which a merge patch replaces whole.
\* Nothing is sent for an empty difference; a Build that is gone fails the
\* patch, which the observer only logs.
mergePatchProvisioners(live, before, after, key) ==
    IF after = before \/ ~live.sb[key].exists THEN live.st
    ELSE [t \in StepIds |-> IF live.st[t].owner = key THEN after[t] ELSE live.st[t]]

\* reconcileJobs reading through the cache.  getPodByJob first gets the Job
\* again from the API server, and GetTerminatedContainersStatusesByJob returns
\* its not-found error to the caller.
reconcileJobsCached(live, cache, name, fault, last) ==
    LET job == cache.jb[name]
        key == [namespace |-> job.labels.buildNamespace, name |-> job.labels.buildName]
        view == [sb |-> cache.sb, st |-> cache.st,
                 jb |-> [cache.jb EXCEPT ![name].pod = live.jb[name].pod]]
        r == reconcileJobs(view, name, fault, last)
    IN IF /\ fault \notin {"getJob", "getBuild"}
          /\ job.exists /\ job.condition = "Failed" /\ cache.sb[key].exists
          /\ ~live.jb[name].exists
       THEN ObserverOut(live, "jobNotFound", "none", FALSE)
       ELSE ObserverOut(
                [sb |-> live.sb,
                 st |-> IF r.patched = "ok"
                        THEN mergePatchProvisioners(live, cache.st, r.c.st, key)
                        ELSE live.st,
                 jb |-> IF r.deleted THEN [live.jb EXCEPT ![name] = NoJob] ELSE live.jb],
                r.err, r.patched, r.deleted)

CachedLastChoices(name) ==
    LET nz == NonZero(GetTerminatedContainersStatusesByPod(jobs[name].pod))
    IN IF call.jb[name].exists /\ call.jb[name].condition = "Failed" /\ nz # {}
       THEN nz ELSE {""}

ObserveCached(name, fault) ==
    /\ \E last \in CachedLastChoices(name) :
       \E r \in {reconcileJobsCached(ShellContext, call, name, fault, last)} :
          /\ fault # "none" =>
                r # reconcileJobsCached(ShellContext, call, name, "none", last)
          /\ sbuilds' = r.c.sb
          /\ steps' = r.c.st
          /\ jobs' = r.c.jb
          /\ lastShell' = [NoShell EXCEPT !.kind = "observe", !.job = name, !.fault = fault,
                                          !.err = r.err, !.patched = r.patched,
                                          !.deleted = r.deleted]
    /\ BuildIdle
    /\ UNCHANGED call

\* The informers catch up with the API server.
SyncCache ==
    /\ call # CacheOf(sbuilds, steps, jobs)
    /\ call' = CacheOf(sbuilds, steps, jobs)
    /\ lastShell' = NoShell
    /\ BuildIdle
    /\ UNCHANGED <<sbuilds, steps, jobs>>

\* One Build with its provisioner specs as created, the cache in step.
InitCache ==
    /\ build = NoBuild
    /\ infra = NoInfra
    /\ provs = [i \in ProvIds |-> "absent"]
    /\ lastPass = NoPass
    /\ steps \in [StepIds -> {[NoStep EXCEPT !.allowFail = a] : a \in BOOLEAN}]
    /\ sbuilds = [k \in BuildKeys |->
                    [NoSBuild EXCEPT !.exists = (k = NoStep.owner)]]
    /\ jobs = [j \in JobNames |-> NoJob]
    /\ lastShell = NoShell
    /\ call = CacheOf(sbuilds, steps, jobs)

NextCache ==
    \/ \E s \in StepIds, fault \in {"none", "create"} : ProvisionerReconcile(s, fault)
    \/ \E name \in JobNames, fault \in ObserverFaults : ObserveCached(name, fault)
    \/ SyncCache
    \/ \E name \in JobNames : JobCompletes(name)
    \/ \E name \in JobNames, pod \in PodProfiles : JobFails(name, pod)

SpecCache == InitCache /\ [][NextCache]_vars

-----------------------------------------------------------------------------
\* The shell provisioner and the observer under fair scheduling.  Reconcile
\* creates the Job at the API server and changes the Build in memory only; a
\* pass whose Build is not stored afterwards leaves the Job behind and the
\* provisioner spec without UUID.

ReconcileNotStored(s) ==
    /\ sbuilds[steps[s].owner].exists
    /\ steps[s].uuid = Nil
    /\ \E r \in {shellReconcile(ShellContext, s, "none")} :
          /\ jobs' = r.c.jb
          /\ lastShell' = [NoShell EXCEPT !.kind = "reconcile", !.step = s, !.fault = "store",
                                          !.err = "error", !.requeueAfter = 0,
                                          !.createOrPatch = r.createOrPatch,
                                          !.created = r.created]
    /\ UNCHANGED <<sbuilds, steps>>
    /\ BuildIdle
    /\ UNCHANGED call

InitFair ==
    /\ build = NoBuild
    /\ infra = NoInfra
    /\ provs = [i \in ProvIds |-> "absent"]
    /\ lastPass = NoPass
    /\ steps \in [StepIds -> {[NoStep EXCEPT !.allowFail = a] : a \in BOOLEAN}]
    /\ sbuilds = [k \in BuildKeys |->
                    [NoSBuild EXCEPT !.exists = (k = NoStep.owner)]]
    /\ jobs = [j \in JobNames |-> NoJob]
    /\ lastShell = NoShell
    /\ call = NoCall

NextFair ==
    \/ \E s \in StepIds : ProvisionerReconcile(s, "none")
    \/ \E s \in StepIds : ReconcileNotStored(s)
    \/ \E name \in JobNames, fault \in ObserverFaults : ObserveJob(name, fault)
    \/ \E name \in JobNames : JobCompletes(name)
    \/ \E name \in JobNames, pod \in PodProfiles : JobFails(name, pod)
    \/ \E key \in BuildKeys : DeleteSBuild(key)

\* The work queues hand every provisioner and every Job to its reconciler
\* again and again, and no call of a pass fails for ever.
FairPasses ==
    /\ \A s \in StepIds : WF_vars(ProvisionerReconcile(s, "none"))
    /\ \A name \in JobNames : WF_vars(ObserveJob(name, "none"))

SpecFair == InitFair /\ [][NextFair]_vars /\ FairPasses

-----------------------------------------------------------------------------
\* The observer over a Job with a list of conditions.  The Job controller
\* appends conditions; reconcileJobs reads the type of the first one.

MaxConditions == 2

JobConditionTypes == {"Complete", "Failed", "Suspended", "FailureTarget", "SuccessCriteriaMet"}

ConditionLists ==
    UNION {[1..n -> JobConditionTypes] : n \in 0..MaxConditions}

\* len(job.Status.Conditions) == 0, else job.Status.Conditions[0].Type
firstCondition(conds) == IF Len(conds) = 0 THEN "none" ELSE conds[1]

\* One Build whose first provisioner is Running with its Job; the Job has
\* reached the conditions held in call.
InitCond ==
    /\ build = NoBuild
    /\ infra = NoInfra
    /\ provs = [i \in ProvIds |-> "absent"]
    /\ lastPass = NoPass
    /\ \E a \in BOOLEAN :
          steps = [t \in StepIds |->
                     IF t = 1 THEN [NoStep EXCEPT !.allowFail = a, !.uuid = <<1, 1>>,
                                                  !.status = "Running"]
                     ELSE NoStep]
    /\ sbuilds = [k \in BuildKeys |->
                    [NoSBuild EXCEPT !.exists = (k = NoStep.owner)]]
    /\ call \in [fn : {"conditions"}, conds : ConditionLists]
    /\ \E pod \in PodProfiles :
          jobs = [j \in JobNames |->
                    IF j = GetShellJobName(NoStep.owner.name)
                    THEN [ShellJobBuilderBuild(NoStep.owner, <<1, 1>>)
                             EXCEPT !.condition = firstCondition(call.conds), !.pod = pod]
                    ELSE NoJob]
    /\ lastShell = NoShell

NextCond == \E name \in JobNames, fault \in ObserverFaults : ObserveJob(name, fault)

SpecCond == InitCond /\ [][NextCond]_vars

-----------------------------------------------------------------------------
\* The Job the provisioner Reconcile builds from a provisioner spec: the
\* arguments of its container and its backoff limit.

MaxRetries == 3

\* ShellJobBuilder.getArgs over the builder's fields; an empty string is <<>>.
getArgs(b) ==
    IF b.scriptToRunRef # <<>>
    THEN <<"--namespace", b.buildNamespace, "--run-script-ref", b.scriptToRunRef,
           "--ssh-credentials-secret-name", b.sshCredentialsSecretName>>
    ELSE <<"--namespace", b.buildNamespace, "--run-script", b.scriptToRun,
           "--ssh-credentials-secret-name", b.sshCredentialsSecretName>>

\* The builder calls of Reconcile and ShellJobBuilder.Build.  Both script
\* branches call WithScriptToRun(*spec.Run); WithScriptToRunRef is never
\* called, and *spec.Run panics on a spec without an inline script.
desiredJob(key, sp) ==
    LET b0 == [buildNamespace |-> key.namespace, buildName |-> key.name,
               scriptToRun |-> <<>>, scriptToRunRef |-> <<>>,
               sshCredentialsSecretName |-> "ssh",
               backoffLimit |-> IF sp.retries = Nil THEN 1 ELSE sp.retries[1]]
        b1 == IF sp.run # Nil THEN [b0 EXCEPT !.scriptToRun = sp.run[1]] ELSE b0
    IN IF sp.runConfigMapRef # Nil /\ sp.run = Nil
       THEN [err |-> "panic", args |-> <<>>, backoffLimit |-> 0]
       ELSE [err |-> "", args |-> getArgs(b1), backoffLimit |-> b1.backoffLimit]

InitJob ==
    /\ build = NoBuild
    /\ infra = NoInfra
    /\ provs = [i \in ProvIds |-> "absent"]
    /\ lastPass = NoPass
    /\ sbuilds = [k \in BuildKeys |-> NoSBuild]
    /\ steps = [s \in StepIds |-> NoStep]
    /\ jobs = [j \in JobNames |-> NoJob]
    /\ lastShell = NoShell
    /\ call \in [fn : {"spec"}, key : BuildKeys,
                 run : {Nil, <<"echo hello">>, <<"make image">>},
                 runConfigMapRef : {Nil, <<"scripts">>},
                 retries : {Nil} \cup {<<n>> : n \in 0..MaxRetries}]

ApplyDesiredJob ==
    /\ call.fn = "spec"
    /\ \E r \in {desiredJob(call.key, call)} :
          call' = [fn |-> "Reconcile", in |-> call, err |-> r.err,
                   args |-> r.args, backoffLimit |-> r.backoffLimit]
    /\ BuildIdle
    /\ UNCHANGED shellVars

NextJob == ApplyDesiredJob

SpecJob == InitJob /\ [][NextJob]_vars

-----------------------------------------------------------------------------
\* Resolution of the version of a reference from the contract label of its
\* CRD.  A string is a sequence of pieces; "_" is the separator of the label.

MaxLabelLen == 4
MaxVersions == 3

Pieces == {"v", "1", "2", "alpha", "beta", "x", "_"}
Digits == {"1", "2"}

\* The byte order of the first characters of the pieces.
PieceOrd(p) ==
    CASE p = "1" -> 1 [] p = "2" -> 2 [] p = "_" -> 3 [] p = "alpha" -> 4
      [] p = "beta" -> 5 [] p = "v" -> 6 [] p = "x" -> 7

\* strings.Compare
RECURSIVE StringsCompare(_, _)
StringsCompare(a, b) ==
    IF a = <<>> /\ b = <<>> THEN 0
    ELSE IF a = <<>> THEN -1
    ELSE IF b = <<>> THEN 1
    ELSE IF PieceOrd(a[1]) < PieceOrd(b[1]) THEN -1
    ELSE IF PieceOrd(a[1]) > PieceOrd(b[1]) THEN 1
    ELSE StringsCompare(Tail(a), Tail(b))

\* strings.Split(s, "_")
RECURSIVE Split(_)
Split(s) ==
    LET seps == {i \in 1..Len(s) : s[i] = "_"}
    IN IF seps = {} THEN <<s>>
       ELSE LET i == CHOOSE j \in seps : \A k \in seps : j <= k
            IN <<SubSeq(s, 1, i - 1)>> \o Split(SubSeq(s, i + 1, Len(s)))

\* strconv.Atoi on a run of digits.
RECURSIVE Atoi(_)
Atoi(ds) ==
    IF ds = <<>> THEN 0
    ELSE 10 * Atoi(SubSeq(ds, 1, Len(ds) - 1)) + (IF ds[Len(ds)] = "1" THEN 1 ELSE 2)

IsNumber(ds) == ds # <<>> /\ \A i \in 1..Len(ds) : ds[i] \in Digits

versionTypeAlpha == 0
versionTypeBeta == 1
versionTypeGA == 2

NotKubeLike == [ok |-> FALSE, major |-> 0, vType |-> 0, minor |-> 0]

\* version.parseKubeVersion: ^v([\d]+)(?:(alpha|beta)([\d]+))?$
parseKubeVersion(v) ==
    IF Len(v) < 2 \/ v[1] # "v" THEN NotKubeLike
    ELSE LET rest == Tail(v)
             words == {i \in 1..Len(rest) : rest[i] \notin Digits}
         IN IF words = {}
            THEN [ok |-> TRUE, major |-> Atoi(rest), vType |-> versionTypeGA, minor |-> 0]
            ELSE LET i == CHOOSE j \in words : \A k \in words : j <= k
                     major == SubSeq(rest, 1, i - 1)
                     minor == SubSeq(rest, i + 1, Len(rest))
                 IN IF rest[i] \in {"alpha", "beta"} /\ IsNumber(major) /\ IsNumber(minor)
                    THEN [ok |-> TRUE, major |-> Atoi(major),
                          vType |-> IF rest[i] = "alpha" THEN versionTypeAlpha
                                    ELSE versionTypeBeta,
                          minor |-> Atoi(minor)]
                    ELSE NotKubeLike

CompareKubeAwareVersionStrings_MajorFirst(v1, v2) ==
    LET p1 == parseKubeVersion(v1)
        p2 == parseKubeVersion(v2)
    IN IF v1 = v2 THEN 0
       ELSE IF ~p1.ok /\ ~p2.ok THEN StringsCompare(v2, v1)
       ELSE IF ~p1.ok THEN -1
       ELSE IF ~p2.ok THEN 1
       ELSE IF p1.major # p2.major THEN p1.major - p2.major
       ELSE IF p1.vType # p2.vType THEN p1.vType - p2.vType
       ELSE p1.minor - p2.minor

\* version.CompareKubeAwareVersionStrings
CompareKubeAwareVersionStrings(v1, v2) ==
    LET p1 == parseKubeVersion(v1)
        p2 == parseKubeVersion(v2)
    IN IF v1 = v2 THEN 0
       ELSE IF ~p1.ok /\ ~p2.ok THEN StringsCompare(v2, v1)
       ELSE IF ~p1.ok THEN -1
       ELSE IF ~p2.ok THEN 1
       ELSE IF p1.vType # p2.vType THEN p1.vType - p2.vType
       ELSE IF p1.major # p2.major THEN p1.major - p2.major
       ELSE p1.minor - p2.minor

\* KubeAwareAPIVersions.Less
Less(a, b) == CompareKubeAwareVersionStrings(a, b) < 0

\* sort.Sort(kubeVersions): ascending by Less.
RECURSIVE Insert(_, _)
Insert(sorted, v) ==
    IF sorted = <<>> THEN <<v>>
    ELSE IF Less(v, sorted[1]) THEN <<v>> \o sorted
    ELSE <<sorted[1]>> \o Insert(Tail(sorted), v)

RECURSIVE Sort(_)
Sort(vs) == IF vs = <<>> THEN <<>> ELSE Insert(Sort(SubSeq(vs, 1, Len(vs) - 1)), vs[Len(vs)])

\* The contract label of a CRD: absent, or a string.
NoLabel == [present |-> FALSE, value |-> <<>>]

getLatestAPIVersionFromContract(label) ==
    IF ~label.present \/ label.value = <<>>
    THEN [version |-> <<>>, err |-> "error"]
    ELSE LET kubeVersions == Sort(Split(label.value))
         IN [version |-> kubeVersions[Len(kubeVersions)], err |-> ""]

\* UpdateReferenceAPIContract on a reference of the given version, the CRD
\* being found or not.
updateReference(version, crdFound, label) ==
    IF ~crdFound THEN [version |-> version, err |-> "error"]
    ELSE LET chosen == getLatestAPIVersionFromContract(label)
         IN IF chosen.err # "" THEN [version |-> version, err |-> "error"]
            ELSE [version |-> chosen.version, err |-> ""]

\* The inputs: every string of at most MaxLabelLen pieces, and every label
\* made of at most MaxVersions well-formed versions.
RECURSIVE StringsUpTo(_)
StringsUpTo(n) ==
    IF n = 0 THEN {<<>>}
    ELSE LET shorter == StringsUpTo(n - 1)
         IN shorter \cup {Append(t, p) : t \in shorter, p \in Pieces}

KnownVersions ==
    { <<"v", "1", "alpha", "1">>, <<"v", "1", "alpha", "2">>, <<"v", "1", "beta", "1">>,
      <<"v", "1">>, <<"v", "2">>, <<"v", "2", "beta", "1">> }

RECURSIVE JoinedUpTo(_)
JoinedUpTo(n) ==
    IF n = 1 THEN KnownVersions
    ELSE LET shorter == JoinedUpTo(n - 1)
         IN shorter \cup {t \o <<"_">> \o v : t \in shorter, v \in KnownVersions}

LabelValues == StringsUpTo(MaxLabelLen) \cup JoinedUpTo(MaxVersions)

ContractLabels == {NoLabel} \cup {[present |-> TRUE, value |-> l] : l \in LabelValues}

InitVersion ==
    /\ build = NoBuild
    /\ infra = NoInfra
    /\ provs = [i \in ProvIds |-> "absent"]
    /\ lastPass = NoPass
    /\ sbuilds = [k \in BuildKeys |-> NoSBuild]
    /\ steps = [s \in StepIds |-> NoStep]
    /\ jobs = [j \in JobNames |-> NoJob]
    /\ lastShell = NoShell
    /\ call \in [fn : {"ref"}, version : {<<"v", "1", "alpha", "1">>, <<"v", "2">>},
                 crdFound : BOOLEAN, label : ContractLabels]

ApplyUpdateReference ==
    /\ call.fn = "ref"
    /\ \E r \in {updateReference(call.version, call.crdFound, call.label)} :
          call' = [fn |-> "UpdateReferenceAPIContract", in |-> call,
                   version |-> r.version, err |-> r.err]
    /\ BuildIdle
    /\ UNCHANGED shellVars

NextVersion == ApplyUpdateReference

SpecVersion == InitVersion /\ [][NextVersion]_vars

-----------------------------------------------------------------------------
\* The event predicates of util/predicates.  An object of an event is a Build,
\* a cluster-api Cluster or something else; a predicate answers "true" or
\* "false", or the call panics on a failed type assertion.

ObjectTypes == {"Build", "Cluster", "Other"}
Objects == [type : ObjectTypes, paused : BOOLEAN]
EventKinds == {"create", "update", "delete", "generic"}
Events == [kind : EventKinds, old : Objects, new : Objects]

AsBool(b) == IF b THEN "true" ELSE "false"

\* ClusterCreateNotPaused: e.Object.(*clusterv1.Cluster)
ClusterCreateNotPaused(e) ==
    IF e.kind # "create" THEN "false"
    ELSE IF e.new.type # "Cluster" THEN "false"
    ELSE AsBool(~e.new.paused)

\* BuildUpdateUnpaused: e.ObjectOld.(*buildv1.Build) with a check,
\* e.ObjectNew.(*buildv1.Build) without one.
BuildUpdateUnpaused(e) ==
    IF e.kind # "update" THEN "false"
    ELSE IF e.old.type # "Build" THEN "false"
    ELSE IF e.new.type # "Build" THEN "panic"
    ELSE AsBool(e.old.paused /\ ~e.new.paused)

\* predicates.Any over two predicates: the first "true" decides.
AnyPredicate(a, b) == IF a = "true" THEN "true" ELSE b

\* BuildUnpaused
BuildUnpaused(e) == AnyPredicate(ClusterCreateNotPaused(e), BuildUpdateUnpaused(e))

InitPredicates ==
    /\ build = NoBuild
    /\ infra = NoInfra
    /\ provs = [i \in ProvIds |-> "absent"]
    /\ lastPass = NoPass
    /\ sbuilds = [k \in BuildKeys |-> NoSBuild]
    /\ steps = [s \in StepIds |-> NoStep]
    /\ jobs = [j \in JobNames |-> NoJob]
    /\ lastShell = NoShell
    /\ call \in [fn : {"event"}, event : Events]

ApplyPredicates ==
    /\ call.fn = "event"
    /\ call' = [fn |-> "BuildUnpaused", event |-> call.event,
                unpaused |-> BuildUnpaused(call.event),
                updateUnpaused |-> BuildUpdateUnpaused(call.event)]
    /\ BuildIdle
    /\ UNCHANGED shellVars

NextPredicates == ApplyPredicates

SpecPredicates == InitPredicates /\ [][NextPredicates]_vars

-----------------------------------------------------------------------------
\* Properties of the Build reconciler.

\* A step that is one pass of Reconcile over an existing Build.
PassStep == lastPass' # lastPass /\ lastPass'.path \notin {"none", "notfound", "phase"}

InfraDelete == [kind |-> "infra", k |-> 0]

DeletesOf(pass) == {pass.deletes[n] : n \in 1..Len(pass.deletes)}

\* C1: the finalizer leaves a Build that is being deleted only in a deletion
\* pass whose descendant listing is empty and whose fetch of the referenced
\* infrastructure object answered not found; at that step no infrastructure
\* object and no provisioner object of the Build is left in the store.
C1_FinalizerRemovedOnlyWhenClean ==
    [][(/\ BuildFinalizer \in build.finalizers
        /\ build.deletionTimestamp
        /\ BuildFinalizer \notin build'.finalizers)
       => (/\ lastPass'.path = "delete"
           /\ lastPass'.descendants = 0
           /\ lastPass'.infraFetch = "notfound"
           /\ ~infra'.exists
           /\ build.externalProvisioner => \A k \in ProvIds : provs'[k] = "absent")]_vars

C1_Witness ==
    /\ lastPass.path = "delete"
    /\ BuildFinalizer \in lastPass.pre.finalizers
    /\ lastPass.pre.status.infrastructureReady
    /\ lastPass.infraFetch = "notfound"
    /\ ~build.exists

C4_NoProgressAfterFailure ==
    [][(/\ PassStep
        /\ lastPass'.path = "forward"
        /\ build.status.failureReason # "")
       => (/\ build'.status.infrastructureReady = build.status.infrastructureReady
           /\ build'.status.ready = build.status.ready
           /\ build'.status.conditions = build.status.conditions
           /\ build'.status.failureDomains = build.status.failureDomains
           /\ ~lastPass'.extPatched)]_vars

\* C5 as stated: a forward pass that follows a forward pass without error,
\* with nothing but the clock changed in between, writes nothing: the stored
\* Build and the infrastructure object are unchanged and no event is recorded.
C5_ForwardIdempotent ==
    [][(/\ PassStep
        /\ lastPass.path = "forward" /\ lastPass.err = ""
        /\ lastPass'.path = "forward")
       => (/\ build' = build
           /\ infra' = infra
           /\ ~lastPass'.buildPatched
           /\ ~lastPass'.extPatched
           /\ lastPass'.events = <<>>)]_vars

\* C6: a pass over a paused Build, paused by the spec flag or by the
\* annotation, with or without a deletion timestamp, returns an empty result
\* and no error and leaves the Build, the infrastructure object, the
\* provisioner objects and the event stream as they were.
C6_PausedIsNoOp ==
    [][(/\ build.exists
        /\ build.paused \/ build.pausedAnnotation
        /\ lastPass' # lastPass
        /\ lastPass'.path # "none")
       => (/\ build' = build
           /\ infra' = infra
           /\ provs' = provs
           /\ lastPass'.path = "paused"
           /\ lastPass'.err = ""
           /\ lastPass'.requeueAfter = 0
           /\ lastPass'.events = <<>>
           /\ lastPass'.deletes = <<>>
           /\ ~lastPass'.extPatched
           /\ ~lastPass'.buildPatched)]_vars

C6_Witness ==
    /\ lastPass.path = "paused"
    /\ lastPass.pre.pausedAnnotation /\ ~lastPass.pre.paused
    /\ lastPass.pre.deletionTimestamp
    /\ infra.exists /\ ~infra.deletionTimestamp
    /\ build = lastPass.pre

\* The Building test of the projection: the infrastructure reference is set
\* and an InfrastructureReady condition exists, or the infrastructureReady
\* flag is true.
BuildingHolds(b) ==
    \/ b.infrastructureRef # "nil" /\ b.status.conditions[InfrastructureReadyCondition].status # "none"
    \/ b.status.infrastructureReady

\* C7: reconcilePhase writes the phase of this priority order and touches
\* nothing else: Pending for an empty phase, with no event; otherwise
\* Completed when ready, else Terminating when the deletion timestamp is
\* set, else Failed when failureReason or failureMessage is set, else
\* Building when the Building test holds, else the previous phase.
C7_PhaseProjection ==
    lastPass.path = "phase" =>
        LET b == lastPass.pre
            expected ==
                IF b.status.phase = "" THEN "Pending"
                ELSE IF b.status.ready THEN "Completed"
                ELSE IF b.deletionTimestamp THEN "Terminating"
                ELSE IF b.status.failureReason # "" \/ b.status.failureMessage # "" THEN "Failed"
                ELSE IF BuildingHolds(b) THEN "Building"
                ELSE b.status.phase
        IN /\ build = [b EXCEPT !.status.phase = expected]
           /\ b.status.phase = "" => lastPass.events = <<>>

C7_Witness ==
    /\ lastPass.path = "phase"
    /\ lastPass.pre.status.phase = "Building"
    /\ lastPass.pre.status.ready
    /\ lastPass.pre.deletionTimestamp
    /\ lastPass.pre.status.failureMessage # ""
    /\ lastPass.pre.status.infrastructureReady
    /\ build.status.phase = "Completed"

\* A pass of Reconcile that reached the deferred projection and patch.
PassPaths == {"forward", "addFinalizer", "delete"}

\* C8 as stated: after a pass, a Build whose failureReason is set has the
\* phase Failed.
C8_FailureIsFailedPhase ==
    (lastPass.path \in PassPaths /\ build.exists /\ build.status.failureReason # "")
       => build.status.phase = "Failed"

\* C8: after a pass, a Build whose failureReason is set has the phase Failed
\* unless it has a deletion timestamp (Terminating), its ready flag is true
\* (Completed) or its phase was empty when the pass started (Pending).
C8_FailureIsFailedUnlessOverridden ==
    (lastPass.path \in PassPaths /\ build.exists /\ build.status.failureReason # "")
       => \/ build.status.phase = "Failed"
          \/ build.deletionTimestamp /\ build.status.phase \in {"Terminating", "Completed"}
          \/ build.status.ready /\ build.status.phase = "Completed"
          \/ lastPass.pre.status.phase = "" /\ build.status.phase = "Pending"

C8_Witness ==
    /\ lastPass.path = "forward"
    /\ lastPass.pre.status.failureReason = ""
    /\ lastPass.pre.status.infrastructureReady
    /\ build.status.failureReason # ""
    /\ build.status.infrastructureReady
    /\ build.status.phase = "Failed"

\* C9: a forward pass without error over a Build with a non-empty phase whose
\* infrastructure object exists, is neither paused nor terminating and
\* reports both readiness flags leaves infrastructureReady and ready true,
\* the InfrastructureReady and Ready conditions in the state of the object's
\* Ready condition (True when it has none), and the phase Completed.
C9_ReadyInfraCompletes ==
    (/\ lastPass.path = "forward" /\ lastPass.err = ""
     /\ lastPass.pre.status.phase # ""
     /\ infra.exists /\ ~infra.pausedAnnotation /\ ~infra.deletionTimestamp
     /\ infra.machineReady /\ infra.ready)
       => /\ build.status.infrastructureReady
          /\ build.status.ready
          /\ build.status.phase = "Completed"
          /\ \A t \in {InfrastructureReadyCondition, ReadyCondition} :
                LET want == IF infra.readyCondition.status = "none"
                            THEN TrueCondition ELSE infra.readyCondition
                IN /\ build.status.conditions[t].status = want.status
                   /\ build.status.conditions[t].reason = want.reason
                   /\ build.status.conditions[t].severity = want.severity

C9_Witness ==
    /\ lastPass.path = "forward" /\ lastPass.err = ""
    /\ lastPass.pre.status.phase = "Pending"
    /\ ~lastPass.pre.status.ready
    /\ infra.machineReady /\ infra.ready
    /\ build.status.ready
    /\ build.status.phase = "Completed"
    /\ ~build.status.provisionersReady /\ ~build.status.connected
    /\ build.status.conditions[ProvisionersReadyCondition].status = "none"

\* C10: the Ready condition of a stored Build is the summary of its
\* InfrastructureReady and ProvisionersReady conditions: absent when neither
\* exists; False, with the reason and severity of a False one, when one of
\* them is False; True, with no reason, when those that exist are all True.
C10_ReadyIsSummary ==
    build.exists =>
        LET cs == build.status.conditions
            ins == {t \in {InfrastructureReadyCondition, ProvisionersReadyCondition} :
                        cs[t].status # "none"}
            falses == {t \in ins : cs[t].status = "False"}
        IN /\ ins = {} => cs[ReadyCondition].status = "none"
           /\ falses # {} =>
                 /\ cs[ReadyCondition].status = "False"
                 /\ \E t \in falses : /\ cs[ReadyCondition].reason = cs[t].reason
                                      /\ cs[ReadyCondition].severity = cs[t].severity
           /\ (ins # {} /\ falses = {}) =>
                 /\ \A t \in ins : cs[t].status = "True"
                 /\ cs[ReadyCondition].status = "True"
                 /\ cs[ReadyCondition].reason = ""

C10_Witness ==
    /\ lastPass.path = "forward" /\ lastPass.buildPatched
    /\ infra.machineReady /\ infra.ready /\ infra.readyCondition.status = "True"
    /\ build.status.conditions[InfrastructureReadyCondition].status = "True"
    /\ build.status.conditions[ProvisionersReadyCondition].status = "False"
    /\ build.status.conditions[ReadyCondition].status = "False"
    /\ build.status.conditions[ReadyCondition].reason = "WaitingForProvisioners"

-----------------------------------------------------------------------------
\* Properties of the shell provisioner and of its Job observer.

ReconcilePass(s) == lastShell'.kind = "reconcile" /\ lastShell'.step = s
ObserverPass(name) == lastShell'.kind = "observe" /\ lastShell'.job = name

FailureOf(key) == <<sbuilds[key].failureReason, sbuilds[key].failureMessage>>

\* C11: a provisioner spec with allowFail=true never sets the failure fields of
\* its Build: a Reconcile pass on such a spec leaves failureReason and
\* failureMessage of every Build as they were, whatever the status of the spec
\* (Failed included), and no pass of the Job observer writes them.
C11_AllowFailNeverFailsBuild ==
    [][/\ \A s \in StepIds :
             ReconcilePass(s) /\ steps[s].allowFail =>
                \A key \in BuildKeys : FailureOf(key)' = FailureOf(key)
       /\ \A name \in JobNames :
             ObserverPass(name) => \A key \in BuildKeys : FailureOf(key)' = FailureOf(key)]_vars

\* A Reconcile pass has just run on a Failed spec with allowFail=true that has
\* a recorded reason and message, and the Build has no failure.
C11_Witness ==
    /\ lastShell.kind = "reconcile"
    /\ lastShell.err = ""
    /\ steps[lastShell.step].allowFail
    /\ steps[lastShell.step].status = "Failed"
    /\ steps[lastShell.step].failureReason # Nil
    /\ sbuilds[steps[lastShell.step].owner].exists
    /\ sbuilds[steps[lastShell.step].owner].failureReason = Nil

\* C12: Job creation is exactly-once per UUID: a Reconcile pass that ends
\* without error on a spec that had no UUID has created one Job that carries
\* the name and namespace of the Build and the new UUID, has stored the UUID,
\* has set the status Running and asks for a requeue after 2s; a pass on a spec
\* that had a UUID issues no create-or-patch call and creates no Job.
C12_JobCreatedOncePerUUID ==
    lastShell.kind = "reconcile" /\ lastShell.err = "" =>
        LET sp == steps[lastShell.step]
            job == jobs[GetShellJobName(sp.owner.name)]
        IN IF lastShell.createOrPatch = 1
           THEN /\ lastShell.created = 1
                /\ job.exists
                /\ job.labels = [buildName |-> sp.owner.name,
                                 buildNamespace |-> sp.owner.namespace,
                                 provisionerID |-> sp.uuid]
                /\ sp.uuid # Nil
                /\ sp.status = "Running"
                /\ lastShell.requeueAfter = provisionerRequeueAfter
           ELSE lastShell.created = 0

\* The Job a provisioner spec corresponds to: the Job of forge-core that bears
\* the name Reconcile builds for the spec.
JobOf(s) == jobs[GetShellJobName(steps[s].owner.name)]

HasOwnJob(s) == JobOf(s).exists /\ JobOf(s).labels.provisionerID = steps[s].uuid

\* C13: Jobs are 1:1 with provisioner specs: after any sequence of Reconcile
\* passes every provisioner spec with a UUID has a Job whose provisioner-uuid
\* label is that UUID, and no Job is the Job of two provisioner specs.
C13_JobPerSpec ==
    /\ \A s \in StepIds : steps[s].uuid # Nil => HasOwnJob(s)
    /\ \A s, t \in StepIds :
          s # t /\ steps[s].uuid # Nil /\ steps[t].uuid # Nil =>
             GetShellJobName(steps[s].owner.name) # GetShellJobName(steps[t].owner.name)

C15_NoDeleteAfterFailedPatch ==
    lastShell.kind = "observe" /\ lastShell.patched = "failed" => ~lastShell.deleted

\* The containers of a pod in the order the observer reads them, init
\* containers first.
ContainersOf(pod) == IF pod.present THEN pod.init \o pod.main ELSE <<>>

FailedContainers(pod) ==
    {n \in 1..Len(ContainersOf(pod)) :
        ContainersOf(pod)[n].terminated /\ ContainersOf(pod)[n].exitCode # 0}

FirstFailed(pod) ==
    ContainersOf(pod)[CHOOSE n \in FailedContainers(pod) :
                         \A m \in FailedContainers(pod) : n <= m]

\* C16: an observer pass on a Job with a Failed condition that patches the
\* Build sets the matching provisioner spec to Failed and records the reason
\* and message of the first terminated container (init containers, then main
\* containers) with a non-zero exit code, whichever order the containers are
\* visited in, and a pass that ends without error has deleted the Job.
C16_FirstFailedContainerRecorded ==
    [][\A name \in JobNames :
          ObserverPass(name) /\ jobs[name].condition = "Failed" /\ lastShell'.patched = "ok" =>
             LET job == jobs[name]
                 key == [namespace |-> job.labels.buildNamespace, name |-> job.labels.buildName]
                 s == GetProvisionerByID(steps, key, job.labels.provisionerID)
             IN /\ steps'[s].status = "Failed"
                /\ FailedContainers(job.pod) # {} =>
                      /\ steps'[s].failureReason = <<FirstFailed(job.pod).reason>>
                      /\ steps'[s].failureMessage = <<FirstFailed(job.pod).message>>
                /\ lastShell'.err = "" => ~jobs'[name].exists]_vars

\* An observer pass over the Job called name that reaches the switch on the
\* type of the Job's first condition and finds a type other than Complete and
\* Failed.
UnrecognizedPass(name) ==
    /\ ObserverPass(name)
    /\ lastShell'.fault = "none"
    /\ jobs[name].exists
    /\ jobs[name].condition \notin {"none", "Complete", "Failed"}
    /\ sbuilds[[namespace |-> jobs[name].labels.buildNamespace,
                name |-> jobs[name].labels.buildName]].exists

Untouched == sbuilds' = sbuilds /\ steps' = steps /\ jobs' = jobs

Stability(p) == IF p.vType = versionTypeGA THEN "GA"
                ELSE IF p.vType = versionTypeBeta THEN "beta" ELSE "alpha"

Above(a, b) == <<a, b>> \in {<<"GA", "beta">>, <<"GA", "alpha">>, <<"beta", "alpha">>}

AtLeast(v, w) ==
    LET p == parseKubeVersion(v)
        q == parseKubeVersion(w)
    IN \/ Above(Stability(p), Stability(q))
       \/ /\ Stability(p) = Stability(q)
          /\ \/ p.major > q.major
             \/ p.major = q.major /\ p.minor >= q.minor

WellFormed(v) == parseKubeVersion(v).ok

Resolved == call.fn = "UpdateReferenceAPIContract"

\* C18: for a CRD that is found and bears a non-empty contract label the
\* reference takes, without error, one of the versions of the label, and when
\* the label holds a well-formed version the one taken is well-formed and at
\* least every well-formed version of the label (GA > beta > alpha, then
\* major, then minor); a missing or empty label yields an error and leaves the
\* version of the reference as it was.
C18_LatestVersionResolved ==
    Resolved /\ call.in.crdFound =>
        LET label == call.in.label
            versions == Split(label.value)
            given == {versions[i] : i \in 1..Len(versions)}
        IN IF ~label.present \/ label.value = <<>>
           THEN call.err = "error" /\ call.version = call.in.version
           ELSE /\ call.err = ""
                /\ call.version \in given
                /\ (\E v \in given : WellFormed(v)) =>
                      /\ WellFormed(call.version)
                      /\ \A v \in given : WellFormed(v) => AtLeast(call.version, v)

\* "v1alpha1_v1beta1_v1" has been resolved to v1.
C18_Witness ==
    /\ Resolved
    /\ call.in.crdFound
    /\ call.in.label = [present |-> TRUE,
                        value |-> <<"v", "1", "alpha", "1", "_", "v", "1", "beta", "1", "_", "v", "1">>]
    /\ call.in.version = <<"v", "1", "alpha", "1">>
    /\ call.err = ""
    /\ call.version = <<"v", "1">>

-----------------------------------------------------------------------------
\* The first pass over a Build, and a pass over a Build that is gone.

\* The last pass ran over an unpaused Build that had no finalizer and no
\* deletion timestamp.
FirstPass ==
    /\ lastPass.path \in {"forward", "addFinalizer", "delete"}
    /\ lastPass.pre.exists
    /\ BuildFinalizer \notin lastPass.pre.finalizers
    /\ ~lastPass.pre.deletionTimestamp

\* C19: a pass over an existing, unpaused Build with no finalizer and no
\* deletion timestamp adds the finalizer and returns at once: no forward phase
\* runs, nothing is fetched, deleted or patched outside the Build, no requeue
\* is asked for, and no error is returned when the patch of the Build is
\* stored, whether or not the infrastructure object exists; a pass for a
\* Build that does not exist returns no error and no requeue and writes nothing.
C19_FirstPassAddsFinalizerOnly ==
    /\ [](FirstPass =>
             /\ lastPass.path = "addFinalizer"
             /\ lastPass.phases = <<>>
             /\ lastPass.deletes = <<>>
             /\ ~lastPass.extPatched
             /\ lastPass.infraFetch = "none"
             /\ lastPass.requeueAfter = 0
             /\ lastPass.buildPatched <=> lastPass.err = ""
             /\ lastPass.buildPatched => BuildFinalizer \in build.finalizers)
    /\ [][lastPass' # lastPass /\ lastPass'.path = "notfound" =>
             /\ ~build.exists
             /\ UNCHANGED <<build, infra, provs>>
             /\ lastPass'.err = ""
             /\ lastPass'.requeueAfter = 0
             /\ ~lastPass'.buildPatched
             /\ ~lastPass'.extPatched]_vars

\* The first pass has just run over a Build whose infrastructureRef names an
\* object that does not exist: the finalizer is stored and nothing else ran.
C19_Witness ==
    /\ lastPass.path = "addFinalizer"
    /\ lastPass.err = ""
    /\ lastPass.pre.infrastructureRef # "nil"
    /\ ~infra.exists
    /\ build.exists
    /\ build.finalizers = {BuildFinalizer}

-----------------------------------------------------------------------------
\* The event predicates.

IsBuildEvent(e) ==
    IF e.kind = "update" THEN e.old.type = "Build" /\ e.new.type = "Build"
    ELSE e.new.type = "Build"

\* C20: BuildUnpaused answers true on the create event of a Build that is not
\* paused and on the update event of a Build whose spec.paused goes from true
\* to false, and false on every other event of a Build; BuildUpdateUnpaused
\* answers true on an update event whose object is not a Build.
C20_BuildUnpausedAsDocumented ==
    call.fn = "BuildUnpaused" =>
        LET e == call.event
        IN /\ IsBuildEvent(e) =>
                 call.unpaused =
                     AsBool(\/ e.kind = "create" /\ ~e.new.paused
                            \/ e.kind = "update" /\ e.old.paused /\ ~e.new.paused)
           /\ e.kind = "update" /\ e.old.type # "Build" => call.updateUnpaused = "true"

-----------------------------------------------------------------------------
\* The write discipline of a pass.

BodyPaths == {"forward", "addFinalizer", "delete"}

\* C21: a pass that gets past the fetch and the pause check writes the Build
\* through one patch, made at the end of the pass from the Build as
\* reconcilePhase and patchBuild left it, on every path and also after an
\* error of the body: a stored patch leaves the projected phase and the
\* summarised Ready condition in the stored Build, a pass whose patch is empty
\* or failed leaves the stored Build as it was, and a failed patch is returned
\* as the error of the pass.
C21_OnePatchAtEnd ==
    [][lastPass' # lastPass /\ lastPass'.path \in BodyPaths =>
          /\ lastPass'.pre = build
          /\ lastPass'.patch \in {"ok", "noop", "failed"}
          /\ lastPass'.buildPatched <=> lastPass'.patch = "ok"
          /\ lastPass'.patch = "failed" => lastPass'.err # ""
          /\ lastPass'.patch # "ok" => build' = build
          /\ lastPass'.patch = "ok" =>
                /\ build' # build
                /\ build'.exists =>
                      /\ build'.status.phase =
                            projectPhase([build' EXCEPT !.status.phase = build.status.phase])
                      /\ build'.status.conditions =
                            SetSummary(build'.status.conditions,
                                       <<ProvisionersReadyCondition,
                                         InfrastructureReadyCondition>>)]_vars

\* A forward pass whose body failed has still stored its patch.
C21_Witness ==
    /\ lastPass.path = "forward"
    /\ lastPass.err = "error"
    /\ lastPass.patch = "ok"
    /\ build.exists
    /\ build.infrastructureRef # lastPass.pre.infrastructureRef

\* The last pass was the first pass over a newly created Build (empty status,
\* no finalizer, no deletion timestamp) and its patch was stored.
FirstPassOnNewBuild ==
    /\ FirstPass
    /\ lastPass.pre.status = NoStatus
    /\ lastPass.patch = "ok"

\* C22 (as stated): the first pass over a newly created Build adds the
\* finalizer and changes nothing in status: every status field, status.phase
\* included, is stored as it was.
C22_FirstPassLeavesStatus ==
    FirstPassOnNewBuild =>
        /\ build.finalizers = lastPass.pre.finalizers \cup {BuildFinalizer}
        /\ build.status = lastPass.pre.status

\* C22 (amended): the first pass over a newly created Build adds the
\* finalizer and sets status.phase to Pending, without a phase event; every
\* other status field is stored as it was, and so is the rest of the Build.
C22_FirstPassSetsPendingOnly ==
    FirstPassOnNewBuild =>
        /\ build = [lastPass.pre EXCEPT !.finalizers = @ \cup {BuildFinalizer},
                                        !.status.phase = "Pending"]
        /\ lastPass.events = <<>>

\* The first pass over a new Build with an infrastructure reference has run.
C22_Witness ==
    /\ FirstPassOnNewBuild
    /\ lastPass.path = "addFinalizer"
    /\ lastPass.pre.infrastructureRef # "nil"
    /\ lastPass.pre.finalizers = {}
    /\ build.status.phase = "Pending"

-----------------------------------------------------------------------------
\* The result of a forward pass.

PhaseOrder == <<"infrastructure", "connection", "provisioners", "image">>

\* The smallest non-zero requeueAfter of a sequence of phase results, 0 when
\* there is none.
SmallestNonZero(results) ==
    LET nz == {results[n].res : n \in 1..Len(results)} \ {0}
    IN IF nz = {} THEN 0 ELSE CHOOSE x \in nz : \A y \in nz : x <= y

\* C23: a forward pass invokes the four phases in order, whether or not an
\* earlier phase failed; the requeueAfter of the body is the smallest non-zero
\* requeueAfter the phases returned, and the body fails exactly when a phase
\* failed.
C23_ForwardAggregate ==
    lastPass.path = "forward" =>
        /\ lastPass.phases = PhaseOrder
        /\ Len(lastPass.results) = 4
        /\ lastPass.requeueAfter = SmallestNonZero(lastPass.results)
        /\ (\E n \in 1..4 : lastPass.results[n].err) => lastPass.err = "error"
        /\ (\A n \in 1..4 : ~lastPass.results[n].err) /\ lastPass.patch # "failed"
              => lastPass.err = ""

\* A forward pass whose first phase failed and whose later phases still ran.
C23_Witness ==
    /\ lastPass.path = "forward"
    /\ lastPass.err = "error"
    /\ lastPass.results[1].err
    /\ lastPass.phases = PhaseOrder

-----------------------------------------------------------------------------
\* The referenced infrastructure object.

\* A forward pass on a Build that references an infrastructure object.
ForwardStep ==
    /\ lastPass' # lastPass
    /\ lastPass'.path = "forward"
    /\ build.infrastructureRef # "nil"

\* C24: when the referenced object is not found, reconcileExternal asks for a
\* requeue after 30 seconds without an error, the infrastructure phase returns
\* that requeue, and neither the Build's status nor an external object is
\* changed; every other failure of the fetch is returned as an error and never
\* as a requeue.
C24_NotFoundRequeues ==
    [][ForwardStep =>
          /\ \A f \in Faults :
                LET e == reconcileExternal(Context(f))
                    r == reconcileInfrastructure(Context(f))
                IN /\ Get(Context(f)) = "notfound" /\ f # "contract" =>
                         /\ e.out = "requeue"
                         /\ r.res = externalRequeueAfter /\ ~r.err
                         /\ r.c.b.status = build.status
                         /\ r.c.i = infra /\ r.c.p = provs
                         /\ ~r.c.extPatched /\ r.c.ev = <<>>
                   /\ Get(Context(f)) = "error" =>
                         /\ e.out = "error"
                         /\ r.err /\ r.res = 0
          /\ ~infra.exists =>
                /\ infra' = infra /\ provs' = provs
                /\ ~lastPass'.extPatched
                /\ \/ lastPass'.results[1] = [res |-> 0, err |-> TRUE]
                   \/ /\ lastPass'.results[1] = [res |-> externalRequeueAfter, err |-> FALSE]
                      /\ lastPass'.requeueAfter = externalRequeueAfter
                      /\ lastPass'.patch # "failed" => lastPass'.err = ""]_vars

\* A forward pass that did not find the referenced object.
C24_Witness ==
    /\ lastPass.path = "forward"
    /\ lastPass.pre.infrastructureRef # "nil"
    /\ ~infra.exists
    /\ lastPass.results[1] = [res |-> externalRequeueAfter, err |-> FALSE]
    /\ lastPass.requeueAfter = externalRequeueAfter
    /\ lastPass.err = ""

\* A pass of Reconcile on a Build whose referenced object exists.
ExternalStep ==
    /\ lastPass' # lastPass
    /\ lastPass'.path \in {"forward", "paused"}
    /\ build.infrastructureRef # "nil"
    /\ infra.exists

PauseMarked == build.paused \/ infra.pausedAnnotation

\* C25: a call of reconcileExternal that returns the object leaves it stored
\* with the Build as controller owner and with the Build's name label, both
\* written by the one patch of the call; with a pause marker on the Build or on
\* the object the call returns paused and writes no owner reference, no label,
\* no patch and no failure field of the Build.
C25_AdoptedByOnePatch ==
    [][ExternalStep =>
          /\ \A f \in Faults :
                LET e == reconcileExternal(Context(f))
                IN /\ e.out = "ok" =>
                         /\ ~PauseMarked
                         /\ e.c.i = [infra EXCEPT !.owner = TRUE, !.label = TRUE]
                         /\ e.c.extPatched <=> ~(infra.owner /\ infra.label)
                   /\ PauseMarked /\ f \notin {"contract", "get"} =>
                         /\ e.out = "paused"
                         /\ e.c.i = infra /\ ~e.c.extPatched
                         /\ e.c.b.status = build.status
          /\ lastPass'.path = "forward" =>
                /\ lastPass'.extPatched =>
                      /\ ~PauseMarked
                      /\ infra' = [infra EXCEPT !.owner = TRUE, !.label = TRUE]
                      /\ infra' # infra
                /\ ~lastPass'.extPatched => infra' = infra
                /\ PauseMarked =>
                      /\ build'.status.failureReason = build.status.failureReason
                      /\ build'.status.failureMessage = build.status.failureMessage]_vars

\* A forward pass that adopted the referenced object.
C25_Witness ==
    /\ lastPass.path = "forward"
    /\ lastPass.extPatched
    /\ infra.exists /\ infra.owner /\ infra.label
    /\ lastPass.err = ""

-----------------------------------------------------------------------------
\* The delete calls of the deletion workflow.

DeleteStep ==
    /\ lastPass' # lastPass
    /\ lastPass'.path = "delete"

\* Whether the object a delete call names was, before the pass, owned by the
\* Build and not terminating.
OwnedAndLive(d) ==
    IF d.kind = "prov" THEN provs[d.k] = "owned"
    ELSE infra.exists /\ infra.owner /\ ~infra.deletionTimestamp

\* C26 as stated: every delete call of the deletion workflow names an object
\* that is owned by the Build and is not already terminating.
C26_DeletesOnlyOwned ==
    [][DeleteStep =>
          \A n \in 1..Len(lastPass'.deletes) : OwnedAndLive(lastPass'.deletes[n])]_vars

\* C26: the delete calls of the loop over the descendants name only objects
\* that are owned by the Build and not already terminating; once no labelled
\* descendant is left, the referenced infrastructure object, when it is found,
\* is sent one delete call whoever owns it and whether or not it is already
\* terminating.
C26_DeletesOwnedOrReferenced ==
    [][DeleteStep =>
          /\ lastPass'.descendants # 0 =>
                \A n \in 1..Len(lastPass'.deletes) : OwnedAndLive(lastPass'.deletes[n])
          /\ lastPass'.descendants = 0 =>
                /\ ~(infra.exists /\ infra.label)
                /\ lastPass'.deletes \in {<<>>, <<[kind |-> "infra", k |-> 0]>>}
                /\ lastPass'.deletes # <<>> =>
                      infra.exists /\ lastPass'.infraFetch = "found"
                /\ infra.exists /\ lastPass'.err = "" =>
                      /\ lastPass'.infraFetch = "found"
                      /\ lastPass'.deletes = <<[kind |-> "infra", k |-> 0]>>
                      /\ infra'.deletionTimestamp]_vars

\* A deletion pass that sent a delete call to a referenced infrastructure
\* object the Build does not own.
C26_Witness ==
    /\ lastPass.path = "delete"
    /\ lastPass.deletes = <<[kind |-> "infra", k |-> 0]>>
    /\ infra.exists /\ ~infra.owner /\ infra.deletionTimestamp
    /\ build.exists /\ BuildFinalizer \in build.finalizers

\* C27: a deletion pass on a Build that has its finalizer and no
\* infrastructure reference lists the descendants without failing, removes the
\* finalizer, records the Deleted event and returns no error.
C27_DeleteWithoutInfrastructure ==
    /\ lastPass.path = "delete"
    /\ lastPass.pre.infrastructureRef = "nil"
    /\ BuildFinalizer \in lastPass.pre.finalizers
    /\ lastPass.patch # "failed"
    => /\ lastPass.err = ""
       /\ \E n \in 1..Len(lastPass.events) : lastPass.events[n].reason = "Deleted"
       /\ build.exists => BuildFinalizer \notin build.finalizers

-----------------------------------------------------------------------------
\* The events of reconcilePhase.

IsPhaseEvent(e) ==
    e.reason \in {"Pending", "Building", "Terminating", "Completed", "Failed", "Unknown"}

PhaseEvents(events) == SelectSeq(events, IsPhaseEvent)

\* C28: a pass whose reconcilePhase changed status.phase recorded exactly one
\* phase event, a Warning when the new phase is Failed and a Normal event
\* otherwise, and a pass that left the phase alone recorded none; the change
\* from the empty phase to Pending is one of these changes.
C28_OneEventPerPhaseChange ==
    /\ lastPass.path \in BodyPaths \cup {"phase"}
    /\ lastPass.patch # "failed"
    /\ build.exists
    => IF build.status.phase # lastPass.pre.status.phase
       THEN PhaseEvents(lastPass.events) =
               <<[type |-> IF build.status.phase = "Failed" THEN "Warning" ELSE "Normal",
                  reason |-> build.status.phase]>>
       ELSE PhaseEvents(lastPass.events) = <<>>

-----------------------------------------------------------------------------
\* The gates of the later phases.

\* C29: in a forward pass the connection phase changes nothing of the Build
\* unless status.infrastructureReady is true and status.connected is false,
\* the provisioners phase changes nothing unless status.connected is true and
\* status.provisionersReady is false, and the image phase changes nothing
\* unless status.provisionersReady is true; none of them returns a requeue or
\* an error.
C29_LaterPhasesGate ==
    [][lastPass' # lastPass /\ lastPass'.path = "forward" =>
          /\ \A f \in Faults :
                LET r1 == reconcileInfrastructure(Context(f))
                    r2 == reconcileConnection(r1.c)
                    r3 == reconcileProvisioners(r2.c)
                    r4 == reconcileImageProvided(r3.c)
                IN /\ ~r1.c.b.status.infrastructureReady \/ r1.c.b.status.connected
                         => r2.c = r1.c
                   /\ ~r2.c.b.status.connected \/ r2.c.b.status.provisionersReady
                         => r3.c = r2.c
                   /\ ~r3.c.b.status.provisionersReady => r4.c = r3.c
                   /\ \A r \in {r2, r3, r4} :
                         /\ r.res = 0 /\ ~r.err
                         /\ r.c.i = r1.c.i /\ r.c.p = r1.c.p /\ r.c.ev = r1.c.ev
          /\ lastPass'.patch = "ok" =>
                /\ build'.status.connected = build.status.connected
                /\ build'.status.provisionersReady = build.status.provisionersReady
                /\ ~build'.status.connected \/ build'.status.provisionersReady =>
                      build'.status.conditions[ProvisionersReadyCondition]
                         = build.status.conditions[ProvisionersReadyCondition]
                /\ /\ ~build'.status.infrastructureReady \/ build'.status.connected
                   /\ ~build'.status.provisionersReady
                   => build'.status.conditions[BuildInitializedCondition]
                         = build.status.conditions[BuildInitializedCondition]]_vars

\* A forward pass on a connected Build whose provisioners are not done: the
\* connection phase and the image phase were skipped and the provisioners
\* phase wrote its condition.
C29_Witness ==
    /\ lastPass.path = "forward"
    /\ build.status.connected /\ ~build.status.provisionersReady
    /\ lastPass.pre.status.conditions[ProvisionersReadyCondition] = NoCond
    /\ build.status.conditions[ProvisionersReadyCondition].reason = "WaitingForProvisioners"
    /\ build.status.conditions[BuildInitializedCondition]
          = lastPass.pre.status.conditions[BuildInitializedCondition]
    /\ build.status.conditions[BuildInitializedCondition].reason = "WaitingForConnection"

-----------------------------------------------------------------------------
\* Polling a provisioner.

\* C30: a Reconcile on a provisioner spec that already has a UUID returns
\* requeueAfter 2s when the spec's status is Pending or Running, and returns an
\* empty result and changes no Build-level status field when it is Completed.
C30_PollByStatus ==
    [][\A s \in StepIds :
          /\ lastShell' # lastShell
          /\ lastShell'.kind = "reconcile" /\ lastShell'.step = s
          /\ steps[s].uuid # Nil
          => /\ steps[s].status \in {"Pending", "Running"} =>
                   lastShell'.requeueAfter = provisionerRequeueAfter /\ lastShell'.err = ""
             /\ steps[s].status = "Completed" =>
                   /\ lastShell'.requeueAfter = 0 /\ lastShell'.err = ""
                   /\ sbuilds' = sbuilds]_vars

-----------------------------------------------------------------------------
\* A failed provisioner.

\* C31: a Reconcile on a provisioner spec that is Failed and must not fail
\* sets the Build's failureReason to ProvisionerFailed and a failureMessage
\* that embeds the UUID and the captured reason and message, and returns
\* without an error, also when the observer captured no reason or message.
C31_FailedProvisionerFailsBuild ==
    [][\A s \in StepIds :
          /\ lastShell' # lastShell
          /\ lastShell'.kind = "reconcile" /\ lastShell'.step = s
          /\ steps[s].uuid # Nil
          /\ steps[s].status = "Failed" /\ ~steps[s].allowFail
          => /\ lastShell'.err = "" /\ lastShell'.requeueAfter = 0
             /\ sbuilds'[steps[s].owner].failureReason = <<"ProvisionerFailed">>
             /\ sbuilds'[steps[s].owner].failureMessage # Nil
             /\ sbuilds'[steps[s].owner].failureMessage[1] = steps[s].uuid]_vars

-----------------------------------------------------------------------------
\* The observer and objects that are gone.

\* The Build the labels of the cached Job name.
CachedKey(name) ==
    [namespace |-> call.jb[name].labels.buildNamespace,
     name |-> call.jb[name].labels.buildName]

\* C32: an observer pass returns no error when the Job it was called for, or
\* the Job's Pod, is not found: a Failed Job whose Pod is gone is deleted and
\* the pass returns no error, and a Job that is gone is a normal end of the
\* pass.
C32_NotFoundIsNoError ==
    [][\A name \in JobNames :
          /\ lastShell' # lastShell
          /\ lastShell'.kind = "observe" /\ lastShell'.job = name
          /\ lastShell'.fault = "none"
          /\ call.jb[name].exists /\ call.jb[name].condition = "Failed"
          /\ call.sb[CachedKey(name)].exists
          /\ GetProvisionerByID(call.st, CachedKey(name),
                                call.jb[name].labels.provisionerID) # 0
          /\ ~jobs[name].exists \/ ~jobs[name].pod.present
          => /\ lastShell'.err = ""
             /\ ~jobs'[name].exists]_vars

-----------------------------------------------------------------------------
\* The script of the Job.

\* C33: the Job built for a provisioner carries its script source.  With an
\* inline script the arguments carry it after --run-script; with a script
\* reference and no inline script the build does not fail and the arguments
\* carry the reference after --run-script-ref; the backoff limit is
\* spec.retries, or 1 when retries is unset.
C33_JobCarriesScriptSource ==
    call.fn = "Reconcile" =>
        /\ call.err = ""
        /\ call.backoffLimit = IF call.in.retries = Nil THEN 1 ELSE call.in.retries[1]
        /\ call.in.run # Nil =>
              \E n \in 1..Len(call.args) - 1 :
                 call.args[n] = "--run-script" /\ call.args[n + 1] = call.in.run[1]
        /\ call.in.run = Nil /\ call.in.runConfigMapRef # Nil =>
              \E n \in 1..Len(call.args) - 1 :
                 /\ call.args[n] = "--run-script-ref"
                 /\ call.args[n + 1] = call.in.runConfigMapRef[1]

-----------------------------------------------------------------------------
\* The observer's patch.

\* C34: an observer pass for a Job changes, in the stored Build, only the
\* provisioner entry whose UUID is the Job's provisioner-uuid label; every
\* other entry keeps the status, failureReason and failureMessage last
\* written, also when the pass read a stale copy of the Build.
C34_ObserverTouchesOneEntry ==
    [][\A name \in JobNames :
          /\ lastShell' # lastShell
          /\ lastShell'.kind = "observe" /\ lastShell'.job = name
          => \A t \in StepIds :
                steps[t].uuid # call.jb[name].labels.provisionerID
                   => steps'[t] = steps[t]]_vars

-----------------------------------------------------------------------------
JobOfStepEnded(s) ==
    \E name \in JobNames :
        /\ jobs[name].exists
        /\ jobs[name].labels.provisionerID # Nil
        /\ jobs[name].labels.provisionerID[1] = s
        /\ jobs[name].condition \in {"Complete", "Failed"}

\* C35: once the Job created for a provisioner has a Complete or Failed
\* condition, fair passes of Reconcile and of the observer lead to the status
\* Completed or Failed of that provisioner (or to the removal of its Build),
\* also when the UUID of the pass that created the Job was never stored.
C35_EndedJobEndsProvisioner ==
    \A s \in StepIds :
        (sbuilds[steps[s].owner].exists /\ JobOfStepEnded(s))
            ~> (steps[s].status \in {"Completed", "Failed"} \/ ~sbuilds[steps[s].owner].exists)

-----------------------------------------------------------------------------
\* C36: a Job with the correlation labels and a Complete or Failed condition
\* is deleted in the end under fair observer passes, also when the Build its
\* labels name is gone or holds no provisioner with the UUID of the Job.
C36_EndedJobIsDeleted ==
    \A name \in JobNames :
        (/\ jobs[name].exists
         /\ jobs[name].labels.provisionerID # Nil
         /\ jobs[name].condition \in {"Complete", "Failed"})
            ~> ~jobs[name].exists

-----------------------------------------------------------------------------
ConditionTypesOf(conds) == {conds[i] : i \in 1..Len(conds)}

\* C37: an observer pass without a failing call over a Job whose condition
\* list holds Failed (and not Complete) at any position marks the provisioner
\* Failed and deletes the Job, and one whose list holds Complete (and not
\* Failed) at any position marks it Completed and deletes the Job.
C37_ConditionAtAnyPosition ==
    [][\A name \in JobNames :
          /\ call.fn = "conditions"
          /\ jobs[name].exists
          /\ lastShell' # lastShell
          /\ lastShell'.kind = "observe" /\ lastShell'.job = name /\ lastShell'.fault = "none"
          => LET types == ConditionTypesOf(call.conds)
                 s == GetProvisionerByID(steps, NoStep.owner, jobs[name].labels.provisionerID)
             IN /\ ("Failed" \in types /\ "Complete" \notin types)
                      => steps'[s].status = "Failed" /\ ~jobs'[name].exists
                /\ ("Complete" \in types /\ "Failed" \notin types)
                      => steps'[s].status = "Completed" /\ ~jobs'[name].exists]_vars

-----------------------------------------------------------------------------
\* C38: in the Build a forward pass has stored, status.ready implies
\* status.infrastructureReady, also after the infrastructure object has
\* stopped reporting readiness.
C38_ReadyImpliesInfrastructureReady ==
    [][/\ lastPass' # lastPass
       /\ lastPass'.path = "forward"
       /\ lastPass'.patch = "ok"
       /\ build'.exists
       => (build'.status.ready => build'.status.infrastructureReady)]_vars

-----------------------------------------------------------------------------
BuildPassKeepsFailure ==
    /\ lastPass' # lastPass
    /\ lastPass'.path # "none"
    /\ build.exists /\ build'.exists
    => /\ build.status.failureReason # "" => build'.status.failureReason # ""
       /\ build.status.failureMessage # "" => build'.status.failureMessage # ""

ShellPassKeepsFailure ==
    lastShell' # lastShell /\ lastShell'.kind # "none"
    => \A k \in BuildKeys :
          sbuilds[k].exists /\ sbuilds'[k].exists
          => /\ sbuilds[k].failureReason # Nil => sbuilds'[k].failureReason # Nil
             /\ sbuilds[k].failureMessage # Nil => sbuilds'[k].failureMessage # Nil

-----------------------------------------------------------------------------
SpecOf(b) ==
    [paused |-> b.paused, infrastructureRef |-> b.infrastructureRef,
     externalProvisioner |-> b.externalProvisioner]

BuildPassStep ==
    /\ lastPass' # lastPass
    /\ lastPass'.path # "none"
    /\ build.exists /\ build'.exists

\* C40: a pass of the Build reconciler leaves the spec of the stored Build as
\* it was, the API version of spec.infrastructureRef included.
C40_PassKeepsSpec == [][BuildPassStep => SpecOf(build') = SpecOf(build)]_vars

\* C40, amended: a pass changes of the spec of the stored Build nothing but
\* the API version of spec.infrastructureRef, which the patch of the pass
\* sets to the version the contract of the referenced kind resolves to.
C40_PassChangesOnlyRefVersion ==
    [][BuildPassStep =>
          /\ build'.paused = build.paused
          /\ build'.externalProvisioner = build.externalProvisioner
          /\ build'.infrastructureRef # build.infrastructureRef
                => /\ build.infrastructureRef # "nil"
                   /\ build'.infrastructureRef = LatestVersion
                   /\ lastPass'.buildPatched]_vars

\* A forward pass has stored the Build with the reference moved from the
\* version it was created with to the latest one.
C40_Witness ==
    /\ lastPass.path = "forward"
    /\ lastPass.buildPatched
    /\ lastPass.pre.infrastructureRef = "v1alpha1"
    /\ build.exists
    /\ build.infrastructureRef = LatestVersion
    /\ build.externalProvisioner = lastPass.pre.externalProvisioner

====
